---------------------------- MODULE Spec2Model ----------------------------
(***************************************************************************)
(* A model of the hospital-guidelines RAG service: the ingestion pipeline  *)
(* (initializeRAG, processPDFs, processIfNew, initializeVectorStore), the  *)
(* answer pipeline (getAnswer with formatResponse and isErrorResponse) and *)
(* the chat endpoint of the server that calls it.                          *)
(*                                                                         *)
(* External collaborators are nondeterministic: every MongoDB read or      *)
(* write may reject, the PDF parser and the vector index may throw, the    *)
(* generation model returns any of a small set of raw texts or throws.     *)
(* Every await of the code is a step boundary, so requests interleave with *)
(* each other and with the ingestion that runs at start-up.                *)
(***************************************************************************)
EXTENDS Integers, Sequences, FiniteSets, TLC

(***************************************************************************)
(* Bounds of the model.                                                    *)
(***************************************************************************)
MaxRequests == 2      \* chat requests over the whole behaviour
MaxRuns == 2          \* cold starts (process lifetimes)
MaxChunks == 3        \* segments the splitter yields for one document
MaxResults == 2       \* passages of one search result the model looks at
MaxEstTextLen == 6    \* estimator check: text lengths up to 6 * ChunkSize / 2 characters
MaxEstPages == 4      \* estimator check: page counts 0..MaxEstPages
MaxEstIndex == 7      \* estimator check: segment ordinals 0..MaxEstIndex
MaxPriorTurns == 4    \* history check: Turns written by earlier process lifetimes
MaxFeedbacks == 2     \* feedback calls over the whole behaviour
MaxRawLen == 5        \* post-processing check: tokens of the raw text

(***************************************************************************)
(* Program constants.                                                      *)
(***************************************************************************)
ChunkSize == 1000     \* the literal 1000 of the page estimate (= chunkSize)
SearchK == 5          \* similaritySearch(question, 5)
HistoryLimit == 3     \* .limit(3)
StatusOk == 200
StatusBadRequest == 400
StatusServerError == 500

None == "none"

(***************************************************************************)
(* Text.  An answer is a sequence of tokens: "\n" and " " are the          *)
(* whitespace characters, "##" the heading marker, BL the bullet marker,  *)
(* "." a sentence end, PageRef a fragment "Page 3", ParenPageRef a         *)
(* fragment "(Page 3)", and every other token a run of characters holding  *)
(* none of these.                                                          *)
(***************************************************************************)
NL == "\n"
SP == " "
HD == "##"
BL == "*"      \* the bullet character U+2022
DOT == "."
PageRef == "Page 3"
PageRefLower == "page 3"
ParenPageRef == "(Page 3)"

IsWs(t) == t \in {NL, SP}
IsPageRef(t) == t \in {PageRef, PageRefLower}

\* String.prototype.toLowerCase on the tokens that carry letters.
ToLowerToken(t) ==
  CASE t = "System Error" -> "system error"
    [] t = "SYSTEM ERROR" -> "system error"
    [] t = "Error" -> "error"
    [] t = "encountered an error" -> "encountered an error"
    [] t = "Something Went Wrong" -> "something went wrong"
    [] t = "something went wrong" -> "something went wrong"
    [] t = "System is initializing" -> "system is initializing"
    [] t = "Information Not Available" -> "information not available"
    [] t = "INFORMATION NOT AVAILABLE" -> "information not available"
    [] t = "Outside My Expertise" -> "outside my expertise"
    [] t = "Hand Hygiene" -> "hand hygiene"
    [] t = PageRef -> PageRefLower
    [] t = ParenPageRef -> "(page 3)"
    [] OTHER -> t

ToLowerText(s) == [i \in 1..Len(s) |-> ToLowerToken(s[i])]

\* String.prototype.includes: pat occurs in s as a contiguous run.
Includes(s, pat) ==
  \E i \in 0..(Len(s) - Len(pat)) :
    \A j \in 1..Len(pat) : s[i + j] = pat[j]

\* First position >= i of s that holds no whitespace (Len(s)+1 if none).
RECURSIVE SkipWs(_, _)
SkipWs(s, i) ==
  IF i > Len(s) THEN i
  ELSE IF IsWs(s[i]) THEN SkipWs(s, i + 1) ELSE i

\* The lookahead (?=\s*X) at position i.
LookaheadWsThen(s, i, x) ==
  LET j == SkipWs(s, i) IN j <= Len(s) /\ s[j] = x

\* /([.!?])\s*(##)/g -> '$1\n\n$2'
RECURSIVE HeadingAfterSentence(_, _)
HeadingAfterSentence(s, i) ==
  IF i > Len(s) THEN <<>>
  ELSE IF s[i] = DOT /\ LookaheadWsThen(s, i + 1, HD)
       THEN <<DOT, NL, NL, HD>> \o HeadingAfterSentence(s, SkipWs(s, i + 1) + 1)
       ELSE <<s[i]>> \o HeadingAfterSentence(s, i + 1)

\* The lazy run [^...]*? from position i: the least k >= i - 1 + least such
\* that s[i..k] holds no token of stop and the lookahead for x holds at
\* k + 1; 0 when there is none.
RECURSIVE LazyRun(_, _, _, _, _)
LazyRun(s, i, least, stop, x) ==
  LET k == i - 1 + least IN
  IF k > Len(s) THEN 0
  ELSE IF \E j \in i..k : s[j] \in stop THEN 0
  ELSE IF LookaheadWsThen(s, k + 1, x) THEN k
  ELSE LazyRun(s, i, least + 1, stop, x)

\* One replace(/(start run)(?=\s*x)/g, '$1' + ins): start is the token the
\* match begins with, least the run's minimum length.
RECURSIVE InsertAfterRun(_, _, _, _, _, _, _)
InsertAfterRun(s, i, start, least, stop, x, ins) ==
  IF i > Len(s) THEN <<>>
  ELSE LET k == IF s[i] = start THEN LazyRun(s, i + 1, least, stop, x) ELSE 0 IN
       IF k # 0
       THEN SubSeq(s, i, k) \o ins \o InsertAfterRun(s, k + 1, start, least, stop, x, ins)
       ELSE <<s[i]>> \o InsertAfterRun(s, i + 1, start, least, stop, x, ins)

\* /\n{3,}/g -> '\n\n'
RECURSIVE CollapseNewlines(_, _)
CollapseNewlines(s, i) ==
  IF i > Len(s) THEN <<>>
  ELSE IF s[i] = NL /\ i + 2 <= Len(s) /\ s[i + 1] = NL /\ s[i + 2] = NL
       THEN LET RECURSIVE EndOfRun(_)
                EndOfRun(j) == IF j <= Len(s) /\ s[j] = NL THEN EndOfRun(j + 1) ELSE j
            IN <<NL, NL>> \o CollapseNewlines(s, EndOfRun(i))
       ELSE <<s[i]>> \o CollapseNewlines(s, i + 1)

\* Strip the tokens of set ws from both ends.
RECURSIVE StripEnds(_, _)
StripEnds(s, ws) ==
  IF s = <<>> THEN s
  ELSE IF s[1] \in ws THEN StripEnds(Tail(s), ws)
  ELSE IF s[Len(s)] \in ws THEN StripEnds(SubSeq(s, 1, Len(s) - 1), ws)
  ELSE s

\* Mutant: the runs of newlines are not collapsed.
formatResponseNoCollapse(rawResponse) ==
  LET f1 == HeadingAfterSentence(rawResponse, 1)
      f2 == InsertAfterRun(f1, 1, HD, 1, {BL, NL}, BL, <<NL, NL>>)
      f3 == InsertAfterRun(f2, 1, BL, 0, {BL, HD, NL}, BL, <<NL>>)
      f4 == InsertAfterRun(f3, 1, BL, 0, {BL, HD, NL}, HD, <<NL, NL>>)
  IN StripEnds(f4, {NL})

formatResponse(rawResponse) ==
  LET f1 == HeadingAfterSentence(rawResponse, 1)
      f2 == InsertAfterRun(f1, 1, HD, 1, {BL, NL}, BL, <<NL, NL>>)
      f3 == InsertAfterRun(f2, 1, BL, 0, {BL, HD, NL}, BL, <<NL>>)
      f4 == InsertAfterRun(f3, 1, BL, 0, {BL, HD, NL}, HD, <<NL, NL>>)
      f5 == CollapseNewlines(f4, 1)
  IN StripEnds(f5, {NL})

\* /\(Page\s+\d+[^)]*\)/gi -> ''
RemoveParenPageRefs(s) == SelectSeq(s, LAMBDA t : ToLowerToken(t) # "(page 3)")

\* /Page\s+\d+[^.]*\.?/gi -> '' : from a page reference through the next "."
RECURSIVE RemovePageRefs(_, _, _)
RemovePageRefs(s, i, inRef) ==
  IF i > Len(s) THEN <<>>
  ELSE IF inRef
       THEN RemovePageRefs(s, i + 1, s[i] # DOT)
       ELSE IF IsPageRef(s[i]) THEN RemovePageRefs(s, i + 1, TRUE)
            ELSE <<s[i]>> \o RemovePageRefs(s, i + 1, FALSE)

\* "Clean page references", with the final trim().
CleanPageReferences(answer) ==
  StripEnds(RemovePageRefs(RemoveParenPageRefs(answer), 1, FALSE), {NL, SP})

errorPatterns ==
  { <<HD, SP, "System Error">>,
    <<HD, SP, "Error">>,
    <<"encountered an error">>,
    <<"something went wrong">>,
    <<"System is initializing">>,
    <<"Information Not Available">> }

\* Mutant: the heading of the out-of-scope answer counts as a failure.
isErrorResponseWithOutOfScope(answer) ==
  \E pattern \in errorPatterns \cup { << "Outside My Expertise" >> } :
    Includes(ToLowerText(answer), ToLowerText(pattern))

\* Mutant: the patterns are compared as written.
isErrorResponseCaseSensitive(answer) ==
  \E pattern \in errorPatterns : Includes(answer, pattern)

isErrorResponse(answer) ==
  \E pattern \in errorPatterns :
    Includes(ToLowerText(answer), ToLowerText(pattern))

\* The fixed answer of the empty-context branch.
InformationNotAvailable ==
  << HD, SP, "Information Not Available", NL, NL,
     "I don't have relevant information in the hospital guidelines to answer this question",
     DOT, NL, NL, HD, SP, "Please Check", NL, BL, SP, "PDF documents are uploaded to the system" >>

\* The fixed answer of a failed generation and of the catch-all.
SystemErrorAnswer ==
  << HD, SP, "System Error", NL, NL,
     "I apologize, but I", SP, "encountered an error", SP, "while processing your question",
     DOT, NL, NL, HD, SP, "Please Try", NL, BL, SP, "Asking the question again" >>

\* What llm.invoke may return (response.content).
RawOutputs ==
  { \* an in-scope answer with page references and loose spacing
    << NL, "Hand Hygiene", SP, "is required", SP, ParenPageRef, DOT, HD, SP, "Steps",
       BL, SP, "Wash", BL, SP, "Dry", NL, NL, NL, PageRef, SP, "of the manual", DOT, NL >>,
    \* the structured out-of-scope answer of the prompt
    << HD, SP, "Outside My Expertise", NL, NL, "I can only provide information", DOT,
       NL, NL, HD, SP, "I Can Help With", NL, BL, SP, "Hospital policies" >>,
    \* a model-written apology, in its own capitalisation
    << "Sorry", SP, "Something Went Wrong", DOT >> }


(***************************************************************************)
(* Questions.  A message is a string; trim() and toLowerCase() are given   *)
(* on the messages of the model.                                           *)
(***************************************************************************)
Messages == { "What is JCI?", " what is jci? ", "visiting hours" }
Sessions == { "s1", "s2" }

StrTrim(q) == IF q = " what is jci? " THEN "what is jci?" ELSE q
StrToLowerCase(q) == IF q = "What is JCI?" THEN "what is jci?" ELSE q

\* question.trim().toLowerCase()
NormalizedQuestion(question) == StrToLowerCase(StrTrim(question))

(***************************************************************************)
(* Documents.  The pdfs folder maps each file name to its size in bytes    *)
(* (0: no such file); the folder itself may not exist yet.                 *)
(***************************************************************************)
Filenames == { "a.pdf", "b.pdf" }
FileSizes == { 10, 20 }
Pairs == Filenames \X FileSizes
Directories == [Filenames -> FileSizes \cup {0}]
EmptyDirectory == [f \in Filenames |-> 0]

\* What pdf(pdfBuffer) may report for a file: pdfData.text.length and
\* pdfData.numpages.  The parser appends "\n\n" and the page's text for
\* every page, so the text holds at least two characters per page.
PdfData == { [textLength |-> 0, numpages |-> 0],
             [textLength |-> 2500, numpages |-> 2] }

\* x / y rounded down, for y > 0.
FloorDiv(x, y) == x \div y

Min(a, b) == IF a < b THEN a ELSE b

\* Math.floor((index * 1000) / (text.length / numpages)) + 1
estimatedPage(index, textLength, numpages) ==
  FloorDiv(index * ChunkSize * numpages, textLength) + 1

\* metadata.pageNumber: Math.min(estimatedPage, pdfData.numpages)
PageNumberNoClamp(index, textLength, numpages) ==
  estimatedPage(index, textLength, numpages)

pageNumber(index, textLength, numpages) ==
  Min(estimatedPage(index, textLength, numpages), numpages)

\* How many segments textSplitter.createDocuments may yield for a text:
\* none for an empty text, else at least one per ChunkSize characters.
ChunkCounts(textLength) ==
  IF textLength = 0 THEN {0}
  ELSE { n \in 1..MaxChunks : n * ChunkSize >= textLength }

\* docs.map((doc, index) => new Document({... metadata ...}))
langchainDocs(filename, fileSize, pdfData, n) ==
  { [ source |-> filename,
      chunkIndex |-> index,
      pageNumber |-> pageNumber(index, pdfData.textLength, pdfData.numpages),
      fileSize |-> fileSize ] : index \in 0..(n - 1) }

\* fs.readdirSync(pdfDir).filter(f => f.endsWith('.pdf')): the names in the
\* folder, in name order.
FileOrder == << "a.pdf", "b.pdf" >>
ListFiles(dir) == SelectSeq(FileOrder, LAMBDA f : dir[f] # 0)

VARIABLES
  pdfDirExists,  \* the pdfs folder exists
  pdfDir,        \* the pdfs folder: a member of Directories
  processed,     \* the ProcessedPDF collection, in insertion order
  pinecone,      \* the passages held by the vector index
  vectorStore,   \* the global vectorStore is set
  initPc,        \* where initializeRAG stands
  files,         \* processPDFs: the file names still to process
  current,       \* processIfNew: fileSize and chunk count of the file in hand
  run,           \* number of the process lifetime
  chats,         \* the Chat collection, in insertion order
  reqs,          \* the chat requests received, in arrival order
  examined,      \* per (filename, fileSize): processIfNew calls that read it
  indexerCalls,  \* per (filename, fileSize): completed fromDocuments calls
  finished,      \* per (filename, fileSize): processIfNew calls that threw nothing
  est,           \* the page estimate under check: inputs and result
  log,           \* this process lifetime: how each processIfNew call ended
  feedbacks,     \* the feedback calls received, in arrival order
  prevLog,       \* the log of the process lifetime before this one
  fmt            \* the post-processing under check: the raw text and its stages

ingestVars == << pdfDirExists, pdfDir, processed, pinecone, vectorStore, initPc, files, current,
                 run, examined, indexerCalls, finished, log, prevLog >>
vars == << pdfDirExists, pdfDir, processed, pinecone, vectorStore, initPc, files, current,
           run, chats, reqs, examined, indexerCalls, finished, est, log, feedbacks, prevLog,
           fmt >>

NoCurrent == [fileSize |-> 0, chunksCount |-> 0, indexed |-> FALSE]
NoEstimate == [ textLength |-> 0, numpages |-> 0, chunks |-> 0, index |-> 0,
                pageNumber |-> 0, computed |-> FALSE ]
NoFormat == [ raw |-> <<>>, formatted |-> <<>>, answer |-> <<>>, stage |-> "none" ]

\* A fresh deployment at its first start: empty stores, an empty index, and
\* any of the given pdfs folders (or none yet).
InitWith(directories) ==
  /\ pdfDirExists \in BOOLEAN
  /\ pdfDir \in directories
  /\ ~pdfDirExists => pdfDir = EmptyDirectory
  /\ processed = <<>>
  /\ pinecone = {}
  /\ vectorStore = FALSE
  /\ initPc = "start"
  /\ files = <<>>
  /\ current = NoCurrent
  /\ run = 1
  /\ chats = <<>>
  /\ reqs = <<>>
  /\ examined = [p \in Pairs |-> 0]
  /\ indexerCalls = [p \in Pairs |-> 0]
  /\ finished = [p \in Pairs |-> 0]
  /\ est = NoEstimate
  /\ log = <<>>
  /\ feedbacks = <<>>
  /\ prevLog = <<>>
  /\ fmt = NoFormat

\* The service with at most one document, a.pdf of 10 bytes, to ingest.
Init == InitWith({ d \in Directories : d["a.pdf"] \in {0, 10} /\ d["b.pdf"] = 0 })

(***************************************************************************)
(* Ingestion: initializeRAG -> processPDFs -> processIfNew per file ->     *)
(* initializeVectorStore.                                                  *)
(***************************************************************************)

\* After a file is finished (or skipped): the next one, or the end of the
\* for loop of processPDFs.
NextFile ==
  /\ files' = Tail(files)
  /\ initPc' = IF Len(files) > 1 THEN "lookup" ELSE "connect"
  /\ current' = NoCurrent

\* Mutant: a failure in processIfNew leaves the for loop of processPDFs.
SkipFileAborts ==
  /\ files' = <<>>
  /\ initPc' = "connect"
  /\ current' = NoCurrent

\* The outer catch of processIfNew: the error is logged, the call returns
\* and the loop goes on with the next file.
SkipFile == NextFile

\* initializeRAG up to the first await: initializeLLM and the synchronous head
\* of processPDFs (the folder is created when missing; no file, no work).
InitializeRAG ==
  /\ initPc = "start"
  /\ IF ~pdfDirExists
     THEN /\ pdfDirExists' = TRUE
          /\ files' = <<>>
          /\ initPc' = "connect"
     ELSE /\ pdfDirExists' = pdfDirExists
          /\ files' = ListFiles(pdfDir)
          /\ initPc' = IF ListFiles(pdfDir) = <<>> THEN "connect" ELSE "lookup"
  /\ pdfDir' = pdfDir
  /\ UNCHANGED << processed, pinecone, vectorStore, current, run, chats, reqs,
                  examined, indexerCalls, finished, est, log, feedbacks, prevLog, fmt >>

\* How a processIfNew call ended, as its console line tells: "skipped"
\* (already processed), "processed" (chunks stored) or "error" (the outer
\* catch); with it, whether the upsert completed, whether the record was
\* written and whether its save rejected.  fileSize is 0 when statSync threw.
LogEntry(filename, fileSize, outcome, indexed, recorded, saveRejected) ==
  [ filename |-> filename, fileSize |-> fileSize, outcome |-> outcome,
    indexed |-> indexed, recorded |-> recorded, saveRejected |-> saveRejected ]

\* ProcessedPDF.findOne({ filename, fileSize })
FindProcessed(filename, fileSize) ==
  { i \in 1..Len(processed) :
      processed[i].filename = filename /\ processed[i].fileSize = fileSize }

\* processIfNew, from statSync to the decision on `existing`.
ProcessLookup ==
  /\ initPc = "lookup"
  /\ LET filename == Head(files)
         fileSize == pdfDir[filename]
     IN \/ \* fs.statSync throws: the outer catch logs, the file is skipped
           /\ SkipFile
           /\ log' = Append(log, LogEntry(filename, 0, "error", FALSE, FALSE, FALSE))
           /\ UNCHANGED << examined, finished >>
        \/ \* findOne resolves
           /\ examined' = [examined EXCEPT ![<<filename, fileSize>>] = @ + 1]
           /\ IF FindProcessed(filename, fileSize) # {}
              THEN /\ NextFile
                   /\ finished' = [finished EXCEPT ![<<filename, fileSize>>] = @ + 1]
                   /\ log' = Append(log, LogEntry(filename, fileSize, "skipped",
                                                  FALSE, FALSE, FALSE))
              ELSE /\ initPc' = "index"
                   /\ current' = [fileSize |-> fileSize, chunksCount |-> 0, indexed |-> FALSE]
                   /\ files' = files
                   /\ finished' = finished
                   /\ log' = log
        \/ \* findOne rejects: existing stays null, the file is processed
           /\ examined' = [examined EXCEPT ![<<filename, fileSize>>] = @ + 1]
           /\ initPc' = "index"
           /\ current' = [fileSize |-> fileSize, chunksCount |-> 0, indexed |-> FALSE]
           /\ files' = files
           /\ finished' = finished
           /\ log' = log
  /\ UNCHANGED << pdfDirExists, pdfDir, processed, pinecone, vectorStore, run, chats, reqs,
                  indexerCalls, est, feedbacks, prevLog, fmt >>

\* Mutant: a failed read, parse, split or upsert still reaches the record step.
ProcessIndexRecordsOnFailure ==
  /\ initPc = "index"
  /\ LET filename == Head(files) IN
     \/ \* reading, parsing, splitting or the upsert throws
        /\ initPc' = "record"
        /\ files' = files
        /\ current' = current
        /\ log' = log
        /\ UNCHANGED << pinecone, vectorStore, indexerCalls >>
     \/ \E pdfData \in PdfData : \E n \in ChunkCounts(pdfData.textLength) :
          /\ pinecone' = pinecone \cup langchainDocs(filename, current.fileSize, pdfData, n)
          /\ vectorStore' = TRUE
          /\ indexerCalls' = [indexerCalls EXCEPT ![<<filename, current.fileSize>>] = @ + 1]
          /\ current' = [current EXCEPT !.chunksCount = n, !.indexed = TRUE]
          /\ initPc' = "record"
          /\ files' = files
          /\ log' = log
  /\ UNCHANGED << pdfDirExists, pdfDir, processed, run, chats, reqs, examined, finished,
                  est, feedbacks, prevLog, fmt >>

\* processIfNew, from readFileSync to PineconeStore.fromDocuments.
ProcessIndex ==
  /\ initPc = "index"
  /\ LET filename == Head(files) IN
     \/ \* reading, parsing, splitting or the upsert throws
        /\ SkipFile
        /\ log' = Append(log, LogEntry(filename, current.fileSize, "error",
                                       FALSE, FALSE, FALSE))
        /\ UNCHANGED << pinecone, vectorStore, indexerCalls >>
     \/ \E pdfData \in PdfData : \E n \in ChunkCounts(pdfData.textLength) :
          /\ pinecone' = pinecone \cup langchainDocs(filename, current.fileSize, pdfData, n)
          /\ vectorStore' = TRUE
          /\ indexerCalls' = [indexerCalls EXCEPT ![<<filename, current.fileSize>>] = @ + 1]
          /\ current' = [current EXCEPT !.chunksCount = n, !.indexed = TRUE]
          /\ initPc' = "record"
          /\ files' = files
          /\ log' = log
  /\ UNCHANGED << pdfDirExists, pdfDir, processed, run, chats, reqs, examined, finished,
                  est, feedbacks, prevLog, fmt >>

\* Mutant: a rejected save of the record reaches the outer catch.
RecordFailurePropagates(filename, fileSize, indexed) ==
  LogEntry(filename, fileSize, "error", indexed, FALSE, TRUE)

\* The inner catch around processedRecord.save(): nothing is rethrown and
\* the file is reported as processed.
RecordFailure(filename, fileSize, indexed) ==
  LogEntry(filename, fileSize, "processed", indexed, FALSE, TRUE)

\* processIfNew: new ProcessedPDF({...}).save(), its failure swallowed.
ProcessRecord ==
  /\ initPc = "record"
  /\ \/ /\ processed' = Append(processed, [ filename |-> Head(files),
                                            fileSize |-> current.fileSize,
                                            chunksCount |-> current.chunksCount ])
        /\ log' = Append(log, LogEntry(Head(files), current.fileSize, "processed",
                                       current.indexed, TRUE, FALSE))
     \/ /\ processed' = processed
        /\ log' = Append(log, RecordFailure(Head(files), current.fileSize, current.indexed))
  /\ NextFile
  /\ finished' = [finished EXCEPT ![<<Head(files), current.fileSize>>] = @ + 1]
  /\ UNCHANGED << pdfDirExists, pdfDir, pinecone, vectorStore, run, chats, reqs, examined,
                  indexerCalls, est, feedbacks, prevLog, fmt >>

\* initializeVectorStore
InitializeVectorStore ==
  /\ initPc = "connect"
  /\ \/ vectorStore' = TRUE                 \* already set, or fromExistingIndex resolves
     \/ /\ ~vectorStore                     \* fromExistingIndex throws
        /\ vectorStore' = FALSE
  /\ initPc' = "done"
  /\ UNCHANGED << pdfDirExists, pdfDir, processed, pinecone, files, current, run, chats, reqs,
                  examined, indexerCalls, finished, est, log, feedbacks, prevLog, fmt >>


(***************************************************************************)
(* The answer pipeline: POST /api/chat and getAnswer.  A request record    *)
(* holds the locals of one getAnswer call and, at the end, the HTTP        *)
(* response; searches, llmCalls and saves count its similaritySearch       *)
(* calls, its llm.invoke calls and the Turns it wrote, searchFailed tells  *)
(* that its similaritySearch rejected, startedAt is the                    *)
(* number of Turns in the ledger when it arrived, and trace lists the      *)
(* steps it went through.  The Chat model is registered before the service is loaded,   *)
(* so mongoose.model('Chat') does not throw in this program.               *)
(***************************************************************************)
NoPrompt == [context |-> <<>>, history |-> <<>>, question |-> ""]
NoResponse == [status |-> 0]
NoRating == 0     \* rating: { type: Number, default: null }
NoTurn == [ sessionId |-> "", messageId |-> 0, question |-> "", answer |-> <<>>,
            pageNumbers |-> <<>>, rating |-> NoRating, success |-> FALSE, timestamp |-> 0 ]

\* !message, !sessionId: an absent field (None) and the empty string are falsy.
Falsy(v) == v \in {None, ""}

NewRequest(message, sessionId, messageId) ==
  [ pc |-> "cache", message |-> message, sessionId |-> sessionId,
    messageId |-> messageId, exactMatch |-> NoTurn, recentChats |-> <<>>,
    context |-> <<>>, pageNumbers |-> <<>>, answer |-> <<>>, isSuccess |-> TRUE,
    prompt |-> NoPrompt, searches |-> 0, searchFailed |-> FALSE, llmCalls |-> 0,
    saves |-> 0,
    startedAt |-> Len(chats), trace |-> << "START", "CACHE_CHECK" >>,
    response |-> NoResponse ]

\* Mutant: the Turn is stored under an id of its own.
NewChatOwnId(sessionId, messageId, question, answer, pageNumbers, success) ==
  [ sessionId |-> sessionId, messageId |-> messageId + 100, question |-> question,
    answer |-> answer, pageNumbers |-> pageNumbers, rating |-> NoRating,
    success |-> success, timestamp |-> Len(chats) + 1 ]

\* new Chat({...}): rating and timestamp take the schema's defaults; the
\* timestamp is the position in insertion order.
NewChat(sessionId, messageId, question, answer, pageNumbers, success) ==
  [ sessionId |-> sessionId, messageId |-> messageId, question |-> question,
    answer |-> answer, pageNumbers |-> pageNumbers, rating |-> NoRating,
    success |-> success, timestamp |-> Len(chats) + 1 ]

\* Mutant: the payload leaves the page numbers of the result out.
ChatResponseDropsPages(thrown, result) ==
  IF thrown
  THEN [status |-> StatusServerError, success |-> FALSE]
  ELSE [ status |-> StatusOk, success |-> TRUE, messageId |-> result.messageId,
         answer |-> result.answer, pageNumbers |-> <<>>,
         consistent |-> result.consistent ]

\* res.status(500).json(...) when getAnswer throws, res.json({ success: true,
\* ...result }) otherwise.
ChatResponse(thrown, result) ==
  IF thrown
  THEN [status |-> StatusServerError, success |-> FALSE]
  ELSE [ status |-> StatusOk, success |-> TRUE, messageId |-> result.messageId,
         answer |-> result.answer, pageNumbers |-> result.pageNumbers,
         consistent |-> result.consistent ]

\* The inner try/catch around errorChat.save(): a failed save is not rethrown.
ErrorSaveRethrownMutant == TRUE
ErrorSaveRethrown == FALSE

\* getAnswer returns: the request keeps its response, the locals that made
\* it up and its counters; the documents it read go out of scope.
Return(q, saved, response) ==
  [ q EXCEPT !.pc = "done", !.saves = @ + saved, !.response = response,
             !.trace = Append(@, "RESPOND"),
             !.exactMatch = NoTurn, !.recentChats = <<>>, !.prompt = NoPrompt ]

\* A rejected ledger read or write throws into the outer catch of getAnswer.
Throw(q) == [ q EXCEPT !.pc = "catch", !.trace = Append(@, "CATCH_ALL") ]

InFlight == { i \in 1..Len(reqs) : reqs[i].pc # "done" }

\* The request bodies the model sends: every message in session s1, and
\* bodies with a field absent or empty.
Bodies ==
  [message : Messages, sessionId : {"s1"}]
    \cup { [message |-> None, sessionId |-> "s1"],
           [message |-> "", sessionId |-> "s1"],
           [message |-> "visiting hours", sessionId |-> None] }

\* POST /api/chat up to the first await of getAnswer.
ChatRequest(bodies, maxRequests) ==
  /\ initPc # "start"
  /\ Len(reqs) < maxRequests
  /\ \E body \in bodies :
       LET messageId == Len(reqs) + 1 IN
       IF Falsy(body.message) \/ Falsy(body.sessionId)
       THEN reqs' = Append(reqs,
              [ NewRequest(body.message, body.sessionId, messageId) EXCEPT
                  !.pc = "done", !.trace = <<>>,
                  !.response = [status |-> StatusBadRequest, success |-> FALSE] ])
       ELSE reqs' = Append(reqs, NewRequest(body.message, body.sessionId, messageId))
  /\ UNCHANGED << ingestVars, chats, est, feedbacks, fmt >>

\* Mutant: the lookup passes over the Turns that were rated.
CacheMatchesUnrated(question) ==
  { i \in 1..Len(chats) :
      /\ chats[i].question = NormalizedQuestion(question)
      /\ chats[i].success
      /\ chats[i].rating = NoRating }

\* Mutant: the lookup forgets the success filter.
CacheMatchesAnySuccess(question) ==
  { i \in 1..Len(chats) : chats[i].question = NormalizedQuestion(question) }

\* Mutant: the lookup compares the question as typed.
CacheMatchesRaw(question) ==
  { i \in 1..Len(chats) : chats[i].question = question /\ chats[i].success }

\* Chat.findOne({ question: question.trim().toLowerCase(), success: true }):
\* the positions of the matching Turns.
CacheMatches(question) ==
  { i \in 1..Len(chats) :
      chats[i].question = NormalizedQuestion(question) /\ chats[i].success }

\* getAnswer: the findOne of the consistency check settles.
CacheLookup(r) ==
  /\ reqs[r].pc = "cache"
  /\ \/ reqs' = [reqs EXCEPT ![r] = Throw(@)]                        \* rejects
     \/ /\ CacheMatches(reqs[r].message) = {}                          \* null
        /\ reqs' = [reqs EXCEPT ![r].pc = "history",
                                ![r].trace = Append(@, "CACHE_MISS")]
     \/ \E i \in CacheMatches(reqs[r].message) :                       \* a Turn
          reqs' = [reqs EXCEPT ![r].pc = "saveHit", ![r].exactMatch = chats[i],
                               ![r].trace = Append(@, "CACHE_HIT")]
  /\ UNCHANGED << ingestVars, chats, est, feedbacks, fmt >>

\* getAnswer, cache hit: newChat.save() settles, then the return.
CacheHitSave(r) ==
  /\ reqs[r].pc = "saveHit"
  /\ LET q == reqs[r] IN
     \/ /\ chats' = Append(chats, NewChat(q.sessionId, q.messageId, StrTrim(q.message),
                                          q.exactMatch.answer, q.exactMatch.pageNumbers, TRUE))
        /\ reqs' = [reqs EXCEPT ![r] = Return(q, 1, ChatResponse(FALSE,
                [ messageId |-> q.messageId, answer |-> q.exactMatch.answer,
                  pageNumbers |-> q.exactMatch.pageNumbers, consistent |-> TRUE ]))]
     \/ /\ reqs' = [reqs EXCEPT ![r] = Throw(@)]
        /\ chats' = chats
  /\ UNCHANGED << ingestVars, est, feedbacks, fmt >>

\* The Turn with the greatest timestamp first.
RECURSIVE SortByTimestampDesc(_)
SortByTimestampDesc(turns) ==
  IF turns = <<>> THEN <<>>
  ELSE LET i == CHOOSE i \in 1..Len(turns) :
                  \A j \in 1..Len(turns) : turns[j].timestamp <= turns[i].timestamp
       IN <<turns[i]>> \o
          SortByTimestampDesc(SubSeq(turns, 1, i - 1) \o SubSeq(turns, i + 1, Len(turns)))

Limit(s, n) == SubSeq(s, 1, Min(n, Len(s)))
Reverse(s) == [i \in 1..Len(s) |-> s[Len(s) + 1 - i]]

\* Mutant: the history is left newest first.
RecentChatsNoReverse(sessionId) ==
  Limit(SortByTimestampDesc(
          SelectSeq(chats, LAMBDA c : c.sessionId = sessionId /\ c.success)),
        HistoryLimit)

\* Chat.find({ sessionId, success: true }).sort({ timestamp: -1 }).limit(3),
\* then recentChats.reverse()
RecentChats(sessionId) ==
  Reverse(Limit(SortByTimestampDesc(
                  SelectSeq(chats, LAMBDA c : c.sessionId = sessionId /\ c.success)),
                HistoryLimit))

\* .map(chat => `Q: ${chat.question}\nA: ${chat.answer}`).join('\n\n'), and
\* `conversationHistory || 'No previous conversation'` in the prompt.
ConversationHistory(recentChats) ==
  IF recentChats = <<>> THEN << "No previous conversation" >>
  ELSE [i \in 1..Len(recentChats) |->
          [Q |-> recentChats[i].question, A |-> recentChats[i].answer]]

\* Mutant: the empty-context branch leaves isSuccess as initialised.
AfterRetrievalKeepsSuccess(q, context, pageNumbers, searched) ==
  IF context = <<>>
  THEN [ q EXCEPT !.pc = "save", !.context = context, !.pageNumbers = pageNumbers,
                 !.searches = @ + searched,
                 !.trace = @ \o << "RETRIEVE", "SYNTH_UNAVAILABLE", "PERSIST" >>,
                 !.answer = InformationNotAvailable ]
  ELSE [ q EXCEPT !.pc = "generate", !.context = context, !.pageNumbers = pageNumbers,
                 !.searches = @ + searched, !.llmCalls = @ + 1,
                 !.trace = @ \o << "RETRIEVE", "GENERATE" >>,
                 !.prompt = [ context |-> context,
                              history |-> ConversationHistory(q.recentChats),
                              question |-> q.message ] ]

\* Mutant: the model is called whether or not anything was retrieved.
AfterRetrievalAlwaysGenerates(q, context, pageNumbers, searched) ==
  [ q EXCEPT !.pc = "generate", !.context = context, !.pageNumbers = pageNumbers,
             !.searches = @ + searched, !.llmCalls = @ + 1,
             !.trace = @ \o << "RETRIEVE", "GENERATE" >>,
             !.prompt = [ context |-> context,
                          history |-> ConversationHistory(q.recentChats),
                          question |-> q.message ] ]

\* The branch on `!context`: the fixed answer and the save, or llm.invoke.
AfterRetrieval(q, context, pageNumbers, searched) ==
  IF context = <<>>
  THEN [ q EXCEPT !.pc = "save", !.context = context, !.pageNumbers = pageNumbers,
                 !.searches = @ + searched,
                 !.trace = @ \o << "RETRIEVE", "SYNTH_UNAVAILABLE", "PERSIST" >>,
                 !.answer = InformationNotAvailable, !.isSuccess = FALSE ]
  ELSE [ q EXCEPT !.pc = "generate", !.context = context, !.pageNumbers = pageNumbers,
                 !.searches = @ + searched, !.llmCalls = @ + 1,
                 !.trace = @ \o << "RETRIEVE", "GENERATE" >>,
                 !.prompt = [ context |-> context,
                              history |-> ConversationHistory(q.recentChats),
                              question |-> q.message ] ]

\* getAnswer: the find of the conversation history settles; without a vector
\* store the retrieval is skipped and the context stays empty.
ReadHistory(r) ==
  /\ reqs[r].pc = "history"
  /\ \/ reqs' = [reqs EXCEPT ![r] = Throw(@)]
     \/ LET q == [reqs[r] EXCEPT !.recentChats = RecentChats(reqs[r].sessionId)] IN
        IF vectorStore
        THEN reqs' = [reqs EXCEPT ![r] = [q EXCEPT !.pc = "search"]]
        ELSE reqs' = [reqs EXCEPT ![r] = AfterRetrieval(q, <<>>, <<>>, 0)]
  /\ UNCHANGED << ingestVars, chats, est, feedbacks, fmt >>


\* [...new Set(pageNumbers)]: the first occurrence of each value, in order.
RECURSIVE Dedupe(_)
Dedupe(s) ==
  IF s = <<>> THEN <<>>
  ELSE LET rest == Dedupe(SubSeq(s, 1, Len(s) - 1)) IN
       IF \E i \in 1..Len(rest) : rest[i] = s[Len(s)] THEN rest
       ELSE Append(rest, s[Len(s)])

\* .sort((a, b) => a - b)
RECURSIVE SortAscending(_)
SortAscending(s) ==
  IF s = <<>> THEN <<>>
  ELSE LET i == CHOOSE i \in 1..Len(s) : \A j \in 1..Len(s) : s[i] <= s[j]
       IN <<s[i]>> \o SortAscending(SubSeq(s, 1, i - 1) \o SubSeq(s, i + 1, Len(s)))

PagesOf(searchResults) ==
  SelectSeq([i \in 1..Len(searchResults) |-> searchResults[i].pageNumber],
            LAMBDA page : page > 0)

\* Mutant: the page list is deduplicated but left in result order.
PageNumbersUnsorted(searchResults) == Dedupe(PagesOf(searchResults))

\* searchResults.map(r => r.metadata.pageNumber).filter(page => page && page > 0),
\* then [...new Set(pageNumbers)].sort((a, b) => a - b)
PageNumbers(searchResults) == SortAscending(Dedupe(PagesOf(searchResults)))

\* searchResults.map(result => result.pageContent).join('\n\n'): every
\* passage has text, so the context is the empty string exactly when nothing
\* was found; the model keeps that much of it.
ContextOf(searchResults) ==
  IF searchResults = <<>> THEN <<>> ELSE << "passages" >>

\* What similaritySearch(question, 5) may resolve to: at most SearchK
\* distinct passages of the index in any order of similarity (the index is
\* eventually consistent, so fewer than it holds may come back).  The model
\* looks at results of up to MaxResults passages.
SearchResults ==
  { s \in UNION { [1..n -> pinecone] : n \in 0..Min(Min(SearchK, MaxResults), Cardinality(pinecone)) } :
      \A i, j \in 1..Len(s) : i # j => s[i] # s[j] }

\* Mutant: a rejected similaritySearch reaches the outer catch.
VectorSearchPropagates(r) ==
  /\ reqs[r].pc = "search"
  /\ \/ reqs' = [reqs EXCEPT ![r] =
                     [Throw(reqs[r]) EXCEPT !.searches = @ + 1, !.searchFailed = TRUE]]
     \/ \E searchResults \in SearchResults :
          reqs' = [reqs EXCEPT ![r] =
                     AfterRetrieval(reqs[r], ContextOf(searchResults),
                                    PageNumbers(searchResults), 1)]
  /\ UNCHANGED << ingestVars, chats, est, feedbacks, fmt >>

\* getAnswer: similaritySearch settles; a rejection is logged and leaves the
\* context empty.
VectorSearch(r) ==
  /\ reqs[r].pc = "search"
  /\ \/ reqs' = [reqs EXCEPT ![r] =
                     [AfterRetrieval(reqs[r], <<>>, <<>>, 1) EXCEPT !.searchFailed = TRUE]]
     \/ \E searchResults \in SearchResults :
          reqs' = [reqs EXCEPT ![r] =
                     AfterRetrieval(reqs[r], ContextOf(searchResults),
                                    PageNumbers(searchResults), 1)]
  /\ UNCHANGED << ingestVars, chats, est, feedbacks, fmt >>

\* Mutant: the catch of the generation calls llm.invoke once more.
GenerationErrorRetries(q) ==
  [ q EXCEPT !.pc = "generate", !.llmCalls = @ + 1 ]

\* The catch around the generation: the fixed error answer, isSuccess = false.
GenerationError(q) ==
  [ q EXCEPT !.pc = "save", !.answer = SystemErrorAnswer, !.isSuccess = FALSE,
             !.trace = @ \o << "GENERATION_ERROR", "PERSIST" >> ]

\* getAnswer: llm.invoke settles; the answer is formatted, cleaned and
\* classified, or replaced by the fixed error answer when the call rejects.
Generate(r) ==
  /\ reqs[r].pc = "generate"
  /\ \/ \E raw \in RawOutputs :
          LET answer == CleanPageReferences(formatResponse(raw)) IN
          reqs' = [reqs EXCEPT ![r].pc = "save", ![r].answer = answer,
                               ![r].isSuccess = ~isErrorResponse(answer),
                               ![r].trace = @ \o << "CLASSIFY", "PERSIST" >>]
     \/ reqs' = [reqs EXCEPT ![r] = GenerationError(@)]
  /\ UNCHANGED << ingestVars, chats, est, feedbacks, fmt >>

\* Mutant: the response does not wait for chat.save().
SaveTurnNotAwaited(r) ==
  /\ reqs[r].pc = "save"
  /\ LET q == reqs[r] IN
     \/ /\ chats' = Append(chats, NewChat(q.sessionId, q.messageId,
                                          NormalizedQuestion(q.message), q.answer,
                                          q.pageNumbers, q.isSuccess))
        /\ reqs' = [reqs EXCEPT ![r] = Return(q, 1, ChatResponse(FALSE,
                [ messageId |-> q.messageId, answer |-> q.answer,
                  pageNumbers |-> q.pageNumbers, consistent |-> FALSE ]))]
     \/ /\ reqs' = [reqs EXCEPT ![r] = Return(q, 0, ChatResponse(FALSE,
                [ messageId |-> q.messageId, answer |-> q.answer,
                  pageNumbers |-> q.pageNumbers, consistent |-> FALSE ]))]
        /\ chats' = chats
  /\ UNCHANGED << ingestVars, est, feedbacks, fmt >>

\* getAnswer: chat.save() settles, then the return.
SaveTurn(r) ==
  /\ reqs[r].pc = "save"
  /\ LET q == reqs[r] IN
     \/ /\ chats' = Append(chats, NewChat(q.sessionId, q.messageId,
                                          NormalizedQuestion(q.message), q.answer,
                                          q.pageNumbers, q.isSuccess))
        /\ reqs' = [reqs EXCEPT ![r] = Return(q, 1, ChatResponse(FALSE,
                [ messageId |-> q.messageId, answer |-> q.answer,
                  pageNumbers |-> q.pageNumbers, consistent |-> FALSE ]))]
     \/ /\ reqs' = [reqs EXCEPT ![r] = Throw(@)]
        /\ chats' = chats
  /\ UNCHANGED << ingestVars, est, feedbacks, fmt >>

\* Mutant: the catch-all keeps the page numbers the request had found.
ErrorPagesKept(q) == q.pageNumbers

\* pageNumbers: [] of errorChat and of the value the catch-all returns.
ErrorPages(q) == <<>>

\* getAnswer, the outer catch: errorChat.save() settles, then the return.
CatchAll(r) ==
  /\ reqs[r].pc = "catch"
  /\ LET q == reqs[r]
         result == [ messageId |-> q.messageId, answer |-> SystemErrorAnswer,
                     pageNumbers |-> ErrorPages(q), consistent |-> FALSE ]
     IN
     \/ /\ chats' = Append(chats, NewChat(q.sessionId, q.messageId,
                                          NormalizedQuestion(q.message),
                                          SystemErrorAnswer, ErrorPages(q), FALSE))
        /\ reqs' = [reqs EXCEPT ![r] = Return(q, 1, ChatResponse(FALSE, result))]
     \/ /\ chats' = chats
        /\ reqs' = [reqs EXCEPT ![r] = Return(q, 0, ChatResponse(ErrorSaveRethrown, result))]
  /\ UNCHANGED << ingestVars, est, feedbacks, fmt >>

\* The process stops and starts again: the globals are lost, the stores and
\* the index are kept, and the pdfs folder may hold other files by then.
ColdStart ==
  /\ initPc = "done"
  /\ InFlight = {}
  /\ run < MaxRuns
  /\ run' = run + 1
  /\ vectorStore' = FALSE
  /\ initPc' = "start"
  /\ pdfDir' \in Directories
  /\ prevLog' = log
  /\ log' = <<>>
  /\ UNCHANGED << pdfDirExists, processed, pinecone, files, current, chats, reqs, examined,
                  indexerCalls, finished, est, feedbacks, fmt >>

Next ==
  \/ InitializeRAG
  \/ ProcessLookup
  \/ ProcessIndex
  \/ ProcessRecord
  \/ InitializeVectorStore
  \/ ChatRequest(Bodies, MaxRequests)
  \/ \E r \in 1..Len(reqs) :
       \/ CacheLookup(r)
       \/ CacheHitSave(r)
       \/ ReadHistory(r)
       \/ VectorSearch(r)
       \/ Generate(r)
       \/ SaveTurn(r)
       \/ CatchAll(r)

Spec == Init /\ [][Next]_vars


(***************************************************************************)
(* Ingestion alone, over several process lifetimes and every pdfs folder.  *)
(***************************************************************************)
InitIngest == InitWith(Directories)

NextIngest ==
  \/ InitializeRAG
  \/ ProcessLookup
  \/ ProcessIndex
  \/ ProcessRecord
  \/ InitializeVectorStore
  \/ ColdStart

SpecIngest == InitIngest /\ [][NextIngest]_vars

\* The same, with every awaited call of initializeRAG settling in the end.
IngestStep ==
  InitializeRAG \/ ProcessLookup \/ ProcessIndex \/ ProcessRecord \/ InitializeVectorStore

SpecIngestLive == InitIngest /\ [][NextIngest]_vars /\ WF_vars(IngestStep)

(***************************************************************************)
(* The page estimate alone: docs.map((doc, index) => ...) of processIfNew  *)
(* on every parsed document of the bounds.  The parser reports at least    *)
(* two characters of text per page, and the splitter yields no more        *)
(* segments than the text has characters.                                  *)
(***************************************************************************)
EstTextLengths ==
  { 0, 2, 3, 7 } \cup { k * (ChunkSize \div 2) : k \in 1..MaxEstTextLen }

InitEstimator ==
  /\ InitWith({EmptyDirectory})
  /\ pdfDirExists

EstimatorInputs ==
  { e \in [ textLength : EstTextLengths, numpages : 0..MaxEstPages,
            chunks : 0..(MaxEstIndex + 1), index : {0}, pageNumber : {0},
            computed : {FALSE} ] :
      /\ e.textLength >= 2 * e.numpages
      /\ e.numpages = 0 => e.textLength = 0
      /\ e.chunks <= e.textLength }

\* pdf(pdfBuffer) and textSplitter.createDocuments settle for some document.
ParseDocument ==
  /\ est = NoEstimate
  /\ est' \in EstimatorInputs \ {NoEstimate}
  /\ UNCHANGED << ingestVars, chats, reqs, feedbacks, fmt >>

\* One call of the callback of docs.map: the metadata of segment `index`.
EstimatePage ==
  /\ est # NoEstimate
  /\ \E index \in 0..(est.chunks - 1) :
       est' = [ est EXCEPT !.index = index, !.computed = TRUE,
                           !.pageNumber = pageNumber(index, est.textLength, est.numpages) ]
  /\ UNCHANGED << ingestVars, chats, reqs, feedbacks, fmt >>

NextEstimator == ParseDocument \/ EstimatePage

SpecEstimator == InitEstimator /\ [][NextEstimator]_vars

(***************************************************************************)
(* The post-processing alone: formatResponse and the cleaning of the page  *)
(* references, as getAnswer applies them to response.content, on every     *)
(* text of up to MaxRawLen tokens.                                         *)
(***************************************************************************)
FormatTokens == { NL, SP, HD, BL, DOT, PageRef, ParenPageRef, "text" }

FormatRaws == UNION { [1..n -> FormatTokens] : n \in 0..MaxRawLen }

InitFormat ==
  /\ InitWith({EmptyDirectory})
  /\ pdfDirExists

\* llm.invoke resolves with some text.
InvokeModel ==
  /\ fmt.stage = "none"
  /\ \E raw \in FormatRaws : fmt' = [NoFormat EXCEPT !.raw = raw, !.stage = "raw"]
  /\ UNCHANGED << ingestVars, chats, reqs, est, feedbacks >>

\* answer = formatResponse(response.content), then the two replace calls
\* and trim() of "Clean page references".
FormatAnswer ==
  /\ fmt.stage = "raw"
  /\ fmt' = [ fmt EXCEPT !.formatted = formatResponse(fmt.raw),
                         !.answer = CleanPageReferences(formatResponse(fmt.raw)),
                         !.stage = "done" ]
  /\ UNCHANGED << ingestVars, chats, reqs, est, feedbacks >>

NextFormat == InvokeModel \/ FormatAnswer

SpecFormat == InitFormat /\ [][NextFormat]_vars

(***************************************************************************)
(* One request against a ledger written by earlier process lifetimes.      *)
(* Every earlier Turn asked "what is jci?": the successful ones carry the  *)
(* answer generated for the first of them (the later ones are cache hits), *)
(* the failed ones the answer of the catch-all.  The index holds a.pdf and *)
(* the vector store is connected.                                          *)
(***************************************************************************)
PriorAnswer ==
  CleanPageReferences(formatResponse(
    << "Hand Hygiene", SP, "is required", DOT >>))

PriorTurn(sessionId, success, position) ==
  [ sessionId |-> sessionId, messageId |-> 0 - position, question |-> "what is jci?",
    answer |-> IF success THEN PriorAnswer ELSE SystemErrorAnswer,
    pageNumbers |-> IF success THEN << 1, 2 >> ELSE <<>>,
    rating |-> NoRating, success |-> success, timestamp |-> position ]

PriorLedgers ==
  UNION { { [i \in 1..n |-> PriorTurn(who[i].sessionId, who[i].success, i)] :
              who \in [1..n -> [sessionId : Sessions, success : BOOLEAN]] } :
          n \in 0..MaxPriorTurns }

HistoryBodies == [message : {"visiting hours", "What is JCI?"}, sessionId : Sessions]

InitHistory ==
  /\ pdfDirExists = TRUE
  /\ pdfDir = [f \in Filenames |-> IF f = "a.pdf" THEN 10 ELSE 0]
  /\ processed = << [filename |-> "a.pdf", fileSize |-> 10, chunksCount |-> 3] >>
  /\ pinecone = langchainDocs("a.pdf", 10, [textLength |-> 2500, numpages |-> 2], 3)
  /\ vectorStore = TRUE
  /\ initPc = "done"
  /\ files = <<>>
  /\ current = NoCurrent
  /\ run = 1
  /\ chats \in PriorLedgers
  /\ reqs = <<>>
  /\ examined = [p \in Pairs |-> IF p = <<"a.pdf", 10>> THEN 1 ELSE 0]
  /\ indexerCalls = [p \in Pairs |-> 0]
  /\ finished = [p \in Pairs |-> IF p = <<"a.pdf", 10>> THEN 1 ELSE 0]
  /\ est = NoEstimate
  /\ log = <<>>
  /\ feedbacks = <<>>
  /\ prevLog = <<>>
  /\ fmt = NoFormat

NextHistory ==
  \/ ChatRequest(HistoryBodies, 1)
  \/ \E r \in 1..Len(reqs) :
       \/ CacheLookup(r)
       \/ CacheHitSave(r)
       \/ ReadHistory(r)
       \/ VectorSearch(r)
       \/ Generate(r)
       \/ SaveTurn(r)
       \/ CatchAll(r)

SpecHistory == InitHistory /\ [][NextHistory]_vars


(***************************************************************************)
(* Feedback: POST /api/feedback.  A call holds its body and, at the end,   *)
(* its HTTP response.  An absent messageId is 0; an absent rating, null    *)
(* and 0 are all falsy and stand as NoRating.                              *)
(***************************************************************************)
\* The bodies the model sends: ratings for the first Turn of the ledger
\* (messageId -1), for the Turn of the chat request (1) and for no Turn
\* (99), and bodies with a field missing.
FeedbackBodies ==
  { [messageId |-> 0 - 1, rating |-> 4], [messageId |-> 0 - 1, rating |-> 5],
    [messageId |-> 1, rating |-> 4], [messageId |-> 99, rating |-> 4],
    [messageId |-> 0, rating |-> 4], [messageId |-> 0 - 1, rating |-> NoRating] }

\* Mutant: the update has no filter.
UpdateRatingEveryTurn(messageId, rating) ==
  [i \in 1..Len(chats) |-> [chats[i] EXCEPT !.rating = rating]]

\* Chat.findOneAndUpdate({ messageId }, { rating }): the first Turn with that
\* messageId gets the rating; without one nothing is written.
UpdateRating(messageId, rating) ==
  LET matches == { i \in 1..Len(chats) : chats[i].messageId = messageId } IN
  IF matches = {} THEN chats
  ELSE LET first == CHOOSE i \in matches : \A j \in matches : i <= j
       IN [chats EXCEPT ![first].rating = rating]

\* POST /api/feedback up to the await of findOneAndUpdate.
FeedbackRequest(maxFeedbacks) ==
  /\ Len(feedbacks) < maxFeedbacks
  /\ \E body \in FeedbackBodies :
       feedbacks' = Append(feedbacks,
         IF body.messageId = 0 \/ body.rating = NoRating
         THEN [ pc |-> "done", messageId |-> body.messageId, rating |-> body.rating,
                response |-> [status |-> StatusBadRequest, success |-> FALSE] ]
         ELSE [ pc |-> "update", messageId |-> body.messageId, rating |-> body.rating,
                response |-> [status |-> 0, success |-> FALSE] ])
  /\ UNCHANGED << ingestVars, chats, reqs, est, fmt >>

\* POST /api/feedback: findOneAndUpdate settles, then the response.
FeedbackUpdate(f) ==
  /\ feedbacks[f].pc = "update"
  /\ \/ /\ chats' = UpdateRating(feedbacks[f].messageId, feedbacks[f].rating)
        /\ feedbacks' = [feedbacks EXCEPT ![f].pc = "done",
                           ![f].response = [status |-> StatusOk, success |-> TRUE]]
     \/ /\ chats' = chats
        /\ feedbacks' = [feedbacks EXCEPT ![f].pc = "done",
                           ![f].response = [status |-> StatusServerError, success |-> FALSE]]
  /\ UNCHANGED << ingestVars, reqs, est, fmt >>

(***************************************************************************)
(* The service on a ledger of earlier lifetimes.  SpecFeedback: one chat   *)
(* request and the feedback calls, the documents ingested before.          *)
(* SpecLedger: a cold start that ingests a new version of the document,    *)
(* with one chat request and one feedback call in between.                 *)
(***************************************************************************)
FeedbackLedgers ==
  { l \in PriorLedgers : Len(l) <= 2 /\ \A i \in 1..Len(l) : l[i].sessionId = "s1" }

LedgerBodies == [message : {"What is JCI?", "visiting hours"}, sessionId : {"s1"}]

\* A cold start after a lifetime that ingested a.pdf of 10 bytes and wrote
\* the ledger; the file has been replaced by one of 20 bytes since.
InitLedger ==
  /\ pdfDirExists = TRUE
  /\ pdfDir = [f \in Filenames |-> IF f = "a.pdf" THEN 20 ELSE 0]
  /\ processed = << [filename |-> "a.pdf", fileSize |-> 10, chunksCount |-> 3] >>
  /\ pinecone = langchainDocs("a.pdf", 10, [textLength |-> 2500, numpages |-> 2], 3)
  /\ vectorStore = FALSE
  /\ initPc = "start"
  /\ files = <<>>
  /\ current = NoCurrent
  /\ run = 2
  /\ chats \in FeedbackLedgers
  /\ reqs = <<>>
  /\ examined = [p \in Pairs |-> IF p = <<"a.pdf", 10>> THEN 1 ELSE 0]
  /\ indexerCalls = [p \in Pairs |-> IF p = <<"a.pdf", 10>> THEN 1 ELSE 0]
  /\ finished = [p \in Pairs |-> IF p = <<"a.pdf", 10>> THEN 1 ELSE 0]
  /\ est = NoEstimate
  /\ log = <<>>
  /\ feedbacks = <<>>
  /\ prevLog = << LogEntry("a.pdf", 10, "processed", TRUE, TRUE, FALSE) >>
  /\ fmt = NoFormat

NextLedger ==
  \/ InitializeRAG
  \/ ProcessLookup
  \/ ProcessIndex
  \/ ProcessRecord
  \/ InitializeVectorStore
  \/ ChatRequest(LedgerBodies, 1)
  \/ \E r \in 1..Len(reqs) :
       \/ CacheLookup(r)
       \/ CacheHitSave(r)
       \/ ReadHistory(r)
       \/ VectorSearch(r)
       \/ Generate(r)
       \/ SaveTurn(r)
       \/ CatchAll(r)
  \/ FeedbackRequest(1)
  \/ \E f \in 1..Len(feedbacks) : FeedbackUpdate(f)

SpecLedger == InitLedger /\ [][NextLedger]_vars

InitFeedback ==
  /\ pdfDirExists = TRUE
  /\ pdfDir = [f \in Filenames |-> IF f = "a.pdf" THEN 10 ELSE 0]
  /\ processed = << [filename |-> "a.pdf", fileSize |-> 10, chunksCount |-> 3] >>
  /\ pinecone = langchainDocs("a.pdf", 10, [textLength |-> 2500, numpages |-> 2], 3)
  /\ vectorStore = TRUE
  /\ initPc = "done"
  /\ files = <<>>
  /\ current = NoCurrent
  /\ run = 2
  /\ chats \in FeedbackLedgers
  /\ reqs = <<>>
  /\ examined = [p \in Pairs |-> IF p = <<"a.pdf", 10>> THEN 1 ELSE 0]
  /\ indexerCalls = [p \in Pairs |-> IF p = <<"a.pdf", 10>> THEN 1 ELSE 0]
  /\ finished = [p \in Pairs |-> IF p = <<"a.pdf", 10>> THEN 1 ELSE 0]
  /\ est = NoEstimate
  /\ log = <<>>
  /\ feedbacks = <<>>
  /\ prevLog = << LogEntry("a.pdf", 10, "processed", TRUE, TRUE, FALSE) >>
  /\ fmt = NoFormat

NextFeedback ==
  \/ ChatRequest(LedgerBodies, 1)
  \/ \E r \in 1..Len(reqs) :
       \/ CacheLookup(r)
       \/ CacheHitSave(r)
       \/ ReadHistory(r)
       \/ VectorSearch(r)
       \/ Generate(r)
       \/ SaveTurn(r)
       \/ CatchAll(r)
  \/ FeedbackRequest(MaxFeedbacks)
  \/ \E f \in 1..Len(feedbacks) : FeedbackUpdate(f)

SpecFeedback == InitFeedback /\ [][NextFeedback]_vars


(***************************************************************************)
(* Properties.                                                             *)
(***************************************************************************)

\* The IngestionRecords of a (filename, fileSize) pair.
RecordsFor(p) ==
  { i \in 1..Len(processed) :
      processed[i].filename = p[1] /\ processed[i].fileSize = p[2] }

\* C6: for every parsed document and every segment ordinal, the page number
\* stored in the segment's metadata lies between 1 and the document's page
\* count.
C6_EstimatedPageInRange ==
  est.computed => (1 <= est.pageNumber /\ est.pageNumber <= est.numpages)

\* C6, its case: a segment beyond the first whose linear estimate runs past
\* the last page and is stored as the last page.
C6_Witness ==
  /\ est.computed
  /\ est.index > 0
  /\ estimatedPage(est.index, est.textLength, est.numpages) > est.numpages
  /\ est.pageNumber = est.numpages

\* C7: once ingestion has run twice over a (documentName, byteSize) pair,
\* neither run throwing, there is exactly one IngestionRecord for the pair
\* and its segments were upserted exactly once.
C7_TwiceOneRecordOneIndexing ==
  \A p \in Pairs :
    (finished[p] = 2 /\ initPc = "done")
      => (Cardinality(RecordsFor(p)) = 1 /\ indexerCalls[p] = 1)

\* C8: the Ingestion Ledger never holds two IngestionRecords for the same
\* (documentName, byteSize) pair, whatever ledger reads and writes fail.
C8_AtMostOneRecordPerPair ==
  \A p \in Pairs : Cardinality(RecordsFor(p)) <= 1


\* The requests getAnswer has answered, and the Turns a request wrote.
Answered(r) == reqs[r].pc = "done" /\ reqs[r].response.status = StatusOk
TurnsOf(r) == { i \in 1..Len(chats) : chats[i].messageId = reqs[r].messageId }
Went(r, step) == \E k \in 1..Len(reqs[r].trace) : reqs[r].trace[k] = step

\* The question of request r, trimmed and lowercased.
Asked(r) == StrToLowerCase(StrTrim(reqs[r].message))

\* The successful Turns that store the question of request r.
Cached(r) == { i \in 1..Len(chats) : chats[i].success /\ chats[i].question = Asked(r) }

StrictlyAscendingPositive(pages) ==
  /\ \A k \in 1..Len(pages) : pages[k] > 0
  /\ \A k \in 1..(Len(pages) - 1) : pages[k] < pages[k + 1]

\* C1, as stated: a request that arrives when a successful Turn stores its
\* normalized question answers with that Turn's answer and page numbers and
\* consistent = true, and calls neither the vector search nor the model.
C1_CachedAnswerServed ==
  \A r \in 1..Len(reqs) :
    Answered(r) =>
      \A i \in Cached(r) :
        i <= reqs[r].startedAt =>
          /\ reqs[r].response.consistent
          /\ reqs[r].response.answer = chats[i].answer
          /\ reqs[r].response.pageNumbers = chats[i].pageNumbers
          /\ reqs[r].searches = 0
          /\ reqs[r].llmCalls = 0

\* C1, amended: such a request never calls the vector search or the model;
\* unless a ledger read or write of the request fails (then it answers with
\* the System Error text) its response has consistent = true and carries
\* the answer and page numbers of a successful Turn storing its question.
C1_CachedAnswerServedUnlessLedgerFails ==
  \A r \in 1..Len(reqs) :
    (\E i \in Cached(r) : i <= reqs[r].startedAt) =>
      /\ reqs[r].searches = 0
      /\ reqs[r].llmCalls = 0
      /\ Answered(r) =>
           IF Went(r, "CATCH_ALL")
           THEN /\ reqs[r].response.answer = SystemErrorAnswer
                /\ ~reqs[r].response.consistent
           ELSE /\ reqs[r].response.consistent
                /\ \E j \in Cached(r) :
                     /\ chats[j].messageId # reqs[r].messageId
                     /\ chats[j].answer = reqs[r].response.answer
                     /\ chats[j].pageNumbers = reqs[r].response.pageNumbers

\* C1, its case: a question typed with other capitals or spaces than stored
\* is answered from the cache.
C1_Witness ==
  \E r \in 1..Len(reqs) :
    /\ Answered(r)
    /\ reqs[r].response.consistent
    /\ reqs[r].message # Asked(r)
    /\ \E i \in Cached(r) : i <= reqs[r].startedAt

\* C2, as stated: a cache lookup made when no successful Turn stores the
\* question is a cache miss that goes on to retrieval, a lookup only ever
\* returns a successful Turn, and an answer served from the cache is the
\* answer of a successful Turn.
C2_StateOk ==
  \A r \in 1..Len(reqs) :
    /\ reqs[r].pc = "saveHit" =>
         /\ reqs[r].exactMatch.success
         /\ reqs[r].exactMatch.question = Asked(r)
    /\ (Answered(r) /\ reqs[r].response.consistent) =>
         \E j \in Cached(r) :
           /\ chats[j].messageId # reqs[r].messageId
           /\ chats[j].answer = reqs[r].response.answer

C2_FailedTurnNeverServed ==
  /\ [] C2_StateOk
  /\ [][ \A r \in 1..Len(reqs) :
           (reqs[r].pc = "cache" /\ reqs'[r].pc # "cache" /\ Cached(r) = {})
             => reqs'[r].pc = "history" ]_vars

\* C2, amended: such a lookup never makes a cache hit; it is a cache miss
\* that goes on to retrieval unless the lookup or the history read fails,
\* which ends the request in the catch-all.
C2_FailedTurnNeverHit ==
  /\ [] C2_StateOk
  /\ [] (\A r \in 1..Len(reqs) :
           (Went(r, "CACHE_MISS") /\ reqs[r].pc \in {"generate", "save", "done"}
              /\ ~Went(r, "RETRIEVE")) => Went(r, "CATCH_ALL"))
  /\ [][ \A r \in 1..Len(reqs) :
           (reqs[r].pc = "cache" /\ reqs'[r].pc # "cache" /\ Cached(r) = {})
             => \/ reqs'[r].pc = "history" /\ reqs'[r].exactMatch = NoTurn
                \/ reqs'[r].pc = "catch" ]_vars

\* C2, its case: a Turn with success = false stores the question, no
\* successful one does, and the request has run retrieval again.
C2_Witness ==
  \E r \in 1..Len(reqs) :
    /\ Went(r, "RETRIEVE")
    /\ reqs[r].pc \in {"generate", "save"}
    /\ Cached(r) = {}
    /\ \E i \in 1..reqs[r].startedAt :
         chats[i].question = Asked(r) /\ ~chats[i].success

\* C4, as stated: a request whose retrieved context is empty has not called
\* the model and has persisted a Turn with success = false and the
\* Information Not Available answer, with no page numbers when the index is
\* empty.
C4_EmptyContextPersistsUnavailable ==
  \A r \in 1..Len(reqs) :
    (Answered(r) /\ Went(r, "RETRIEVE") /\ reqs[r].context = <<>>) =>
      /\ reqs[r].llmCalls = 0
      /\ \E i \in TurnsOf(r) :
           /\ ~chats[i].success
           /\ chats[i].answer = InformationNotAvailable
           /\ pinecone = {} => chats[i].pageNumbers = <<>>

\* C4, amended: a request whose retrieved context is empty never calls the
\* model and goes to the ledger with the Information Not Available answer
\* and success = false (and no page numbers when the index is empty); that
\* one Turn is persisted and returned unless the ledger write fails, and
\* then the catch-all answers with the System Error text instead.
C4_EmptyContextUnavailableUnlessWriteFails ==
  \A r \in 1..Len(reqs) :
    (Went(r, "RETRIEVE") /\ reqs[r].context = <<>>) =>
      /\ reqs[r].llmCalls = 0
      /\ Went(r, "SYNTH_UNAVAILABLE")
      /\ reqs[r].answer = InformationNotAvailable
      /\ ~reqs[r].isSuccess
      /\ pinecone = {} => reqs[r].pageNumbers = <<>>
      /\ Answered(r) =>
           IF Went(r, "CATCH_ALL")
           THEN /\ reqs[r].response.answer = SystemErrorAnswer
                /\ \A i \in TurnsOf(r) : chats[i].answer = SystemErrorAnswer
           ELSE /\ reqs[r].response.answer = InformationNotAvailable
                /\ pinecone = {} => reqs[r].response.pageNumbers = <<>>
                /\ Cardinality(TurnsOf(r)) = 1
                /\ \A i \in TurnsOf(r) :
                     /\ ~chats[i].success
                     /\ chats[i].answer = InformationNotAvailable
                     /\ pinecone = {} => chats[i].pageNumbers = <<>>

\* C4, its case: the search ran against a connected store and found nothing
\* (or failed), and the unsuccessful Turn is in the ledger.
C4_Witness ==
  \E r \in 1..Len(reqs) :
    /\ Answered(r)
    /\ reqs[r].searches = 1
    /\ reqs[r].context = <<>>
    /\ pinecone = {}
    /\ \E i \in TurnsOf(r) :
         /\ chats[i].answer = InformationNotAvailable
         /\ ~chats[i].success
         /\ chats[i].pageNumbers = <<>>

\* C5: the page numbers of every response of getAnswer and of every Turn in
\* the ledger are strictly ascending and greater than 0.
C5_PageNumbersAscending ==
  /\ \A i \in 1..Len(chats) : StrictlyAscendingPositive(chats[i].pageNumbers)
  /\ \A r \in 1..Len(reqs) :
       Answered(r) => StrictlyAscendingPositive(reqs[r].response.pageNumbers)

\* C5, its case: a response served from the cache with two page numbers.
C5_Witness ==
  \E r \in 1..Len(reqs) :
    /\ Answered(r)
    /\ reqs[r].response.consistent
    /\ Len(reqs[r].response.pageNumbers) = 2

\* C9, as stated: the model is called at most once per request, and a
\* request whose model call raised has persisted exactly one Turn, with
\* success = false and the System Error answer, and has returned that answer.
C9_GenerationErrorPersistsOneTurn ==
  \A r \in 1..Len(reqs) :
    /\ reqs[r].llmCalls <= 1
    /\ (Answered(r) /\ Went(r, "GENERATION_ERROR")) =>
         /\ reqs[r].response.answer = SystemErrorAnswer
         /\ Cardinality(TurnsOf(r)) = 1
         /\ \A i \in TurnsOf(r) :
              ~chats[i].success /\ chats[i].answer = SystemErrorAnswer

\* C9, amended: the same, except that the request has persisted no Turn at
\* all when both its ledger writes failed (the Turn's and the catch-all's).
C9_GenerationErrorPersistsAtMostOneTurn ==
  \A r \in 1..Len(reqs) :
    /\ reqs[r].llmCalls <= 1
    /\ Went(r, "GENERATION_ERROR") =>
         /\ reqs[r].answer = SystemErrorAnswer
         /\ ~reqs[r].isSuccess
    /\ (Answered(r) /\ Went(r, "GENERATION_ERROR")) =>
         /\ reqs[r].response.answer = SystemErrorAnswer
         /\ reqs[r].response.success
         /\ Cardinality(TurnsOf(r)) = reqs[r].saves
         /\ reqs[r].saves <= 1
         /\ ~Went(r, "CATCH_ALL") => reqs[r].saves = 1
         /\ \A i \in TurnsOf(r) :
              ~chats[i].success /\ chats[i].answer = SystemErrorAnswer

\* C9, its case: the model call raised and the error Turn was written at the
\* first attempt.
C9_Witness ==
  \E r \in 1..Len(reqs) :
    /\ Answered(r)
    /\ Went(r, "GENERATION_ERROR")
    /\ ~Went(r, "CATCH_ALL")
    /\ Cardinality(TurnsOf(r)) = 1

\* C10: the chat endpoint answers 400 exactly when message or sessionId is
\* missing (absent or empty); every other request gets the success payload
\* with an answer, whatever failed on the way, and never a 500.
C10_OnlyMissingFieldsFail ==
  \A r \in 1..Len(reqs) :
    reqs[r].pc = "done" =>
      /\ reqs[r].response.status \in {StatusOk, StatusBadRequest}
      /\ reqs[r].response.status = StatusBadRequest
           <=> (reqs[r].message \in {None, ""} \/ reqs[r].sessionId \in {None, ""})
      /\ reqs[r].response.status = StatusOk =>
           /\ reqs[r].response.success
           /\ reqs[r].response.answer # <<>>

\* C10, its case: every ledger operation of the request failed, the write
\* of the catch-all included, and the response is still the success payload.
C10_Witness ==
  \E r \in 1..Len(reqs) :
    /\ Answered(r)
    /\ Went(r, "CATCH_ALL")
    /\ reqs[r].saves = 0
    /\ reqs[r].response.success

\* The successful Turns of a session.
Eligible(sessionId) ==
  { i \in 1..Len(chats) : chats[i].sessionId = sessionId /\ chats[i].success }

\* h is the window the claim describes: the min(3, n) newest successful
\* Turns of the session, oldest first.
IsRecentWindow(h, sessionId) ==
  /\ Len(h) = Min(3, Cardinality(Eligible(sessionId)))
  /\ \A k \in 1..Len(h) : \E i \in Eligible(sessionId) : chats[i] = h[k]
  /\ \A k \in 1..(Len(h) - 1) : h[k].timestamp < h[k + 1].timestamp
  /\ \A i \in Eligible(sessionId) :
       (\A k \in 1..Len(h) : chats[i] # h[k])
         => \A k \in 1..Len(h) : chats[i].timestamp < h[k].timestamp

\* C3: the history a cache miss reads is the min(3, n) most recent
\* successful Turns of its session, oldest first, and the prompt of the
\* generation carries exactly their questions and answers in that order.
C3_HistoryIsRecentWindow ==
  [][ \A r \in 1..Len(reqs) :
        /\ (reqs[r].pc = "history" /\ reqs'[r].pc \in {"search", "save"})
             => IsRecentWindow(reqs'[r].recentChats, reqs[r].sessionId)
        /\ (reqs[r].pc = "search" /\ reqs'[r].pc = "generate")
             => /\ reqs'[r].recentChats = reqs[r].recentChats
                /\ IF reqs[r].recentChats = <<>>
                   THEN reqs'[r].prompt.history = << "No previous conversation" >>
                   ELSE /\ Len(reqs'[r].prompt.history) = Len(reqs[r].recentChats)
                        /\ \A k \in 1..Len(reqs[r].recentChats) :
                             /\ reqs'[r].prompt.history[k].Q = reqs[r].recentChats[k].question
                             /\ reqs'[r].prompt.history[k].A = reqs[r].recentChats[k].answer
    ]_vars

\* C3, its case: the session has more than three successful Turns, and a
\* prompt is made with the three newest.
C3_Witness ==
  \E r \in 1..Len(reqs) :
    /\ reqs[r].pc = "generate"
    /\ Cardinality(Eligible(reqs[r].sessionId)) > 3
    /\ Len(reqs[r].prompt.history) = 3
    /\ Len(reqs[r].recentChats) = 3


\* C14: the ProcessedPDF collection grows only by the record step of the file
\* in hand, which is entered only by a step that completed the upsert of that
\* file; a step in which reading, parsing, splitting or the upsert fails
\* leaves the collection alone and goes on to the next file.
C14_RecordOnlyAfterUpsert ==
  [][ /\ processed' # processed =>
           /\ initPc = "record"
           /\ current.indexed
           /\ Len(processed') = Len(processed) + 1
           /\ SubSeq(processed', 1, Len(processed)) = processed
           /\ processed'[Len(processed')].filename = Head(files)
           /\ processed'[Len(processed')].fileSize = current.fileSize
      /\ (initPc' = "record" /\ initPc # "record") =>
           /\ initPc = "index"
           /\ indexerCalls'[<<Head(files), current.fileSize>>]
                = indexerCalls[<<Head(files), current.fileSize>>] + 1
      /\ (initPc = "index" /\ initPc' # "index" /\ indexerCalls' = indexerCalls) =>
           /\ initPc' \in {"lookup", "connect"}
           /\ processed' = processed
           /\ Len(log') = Len(log) + 1
           /\ log'[Len(log')].outcome = "error"
    ]_vars

\* C14, its case: in one run the upsert of one file failed and left no
\* record, and another file was indexed and recorded.
C14_Witness ==
  \E k, j \in 1..Len(log) :
    /\ log[k].outcome = "error"
    /\ log[k].fileSize # 0
    /\ RecordsFor(<<log[k].filename, log[k].fileSize>>) = {}
    /\ log[j].recorded
    /\ RecordsFor(<<log[j].filename, log[j].fileSize>>) # {}

\* The names of the files whose processIfNew call has ended in this run.
Ended == [k \in 1..Len(log) |-> log[k].filename]

\* C15: when the for loop of processPDFs is over, processIfNew has run and
\* ended for every file of the enumeration, in order, whatever failed for
\* any of them; and every ingestion run that starts reaches its end.
C15_BatchNeverAborted ==
  /\ [] (initPc \in {"connect", "done"} => Ended = ListFiles(pdfDir))
  /\ [] (initPc \in {"lookup", "index", "record"} =>
           Ended \o files = ListFiles(pdfDir))
  /\ (initPc = "start") ~> (initPc = "done")

\* C15, its case: the first file of the run failed and the second was still
\* processed, and the run came to its end.
C15_Witness ==
  /\ initPc = "done"
  /\ Len(log) = 2
  /\ log[1].outcome = "error"
  /\ log[2].outcome = "processed"

FailureSignatures ==
  { << HD, SP, "system error" >>, << HD, SP, "error" >>, << "encountered an error" >>,
    << "something went wrong" >>, << "system is initializing" >>,
    << "information not available" >> }

HasFailureSignature(answer) ==
  \E signature \in FailureSignatures : Includes(ToLowerText(answer), signature)

\* C13: a generated answer goes to the ledger with success = true exactly
\* when llm.invoke did not raise and the final text holds none of the six
\* failure signatures in any capitalisation, and the Turn written for it
\* carries that text and that flag; no Turn with success = true holds a
\* failure signature.
C13_ClassifierDecidesSuccess ==
  /\ \A i \in 1..Len(chats) :
       chats[i].success => ~HasFailureSignature(chats[i].answer)
  /\ \A r \in 1..Len(reqs) :
       (Went(r, "GENERATE") /\ reqs[r].pc # "generate") =>
         /\ reqs[r].isSuccess <=>
              (~Went(r, "GENERATION_ERROR") /\ ~HasFailureSignature(reqs[r].answer))
         /\ ~Went(r, "CATCH_ALL") =>
              \A i \in TurnsOf(r) :
                /\ chats[i].answer = reqs[r].answer
                /\ chats[i].success = reqs[r].isSuccess

\* C13, its case: the model answered with an apology in its own
\* capitalisation, and the Turn was stored with success = false.
C13_Witness ==
  \E r \in 1..Len(reqs) :
    /\ Went(r, "CLASSIFY")
    /\ \E i \in TurnsOf(r) :
         /\ ~chats[i].success
         /\ chats[i].answer = reqs[r].answer
         /\ HasFailureSignature(chats[i].answer)
         /\ ~Includes(chats[i].answer, << "something went wrong" >>)

\* C17: a request whose similaritySearch rejected or that found no vector
\* store has an empty context and no page numbers and takes the
\* Information Not Available path; the step in which retrieval fails never
\* enters the catch-all.
C17_StateOk ==
  \A r \in 1..Len(reqs) :
    (reqs[r].searchFailed \/ (Went(r, "RETRIEVE") /\ reqs[r].searches = 0)) =>
      /\ reqs[r].context = <<>>
      /\ reqs[r].pageNumbers = <<>>
      /\ reqs[r].answer = InformationNotAvailable
      /\ ~reqs[r].isSuccess
      /\ reqs[r].llmCalls = 0
      /\ Went(r, "SYNTH_UNAVAILABLE")
      /\ Went(r, "CATCH_ALL") => Went(r, "PERSIST")

C17_RetrievalFailureDegrades ==
  /\ [] C17_StateOk
  /\ [][ \A r \in 1..Len(reqs) :
           /\ (reqs[r].pc = "search" /\ reqs'[r].pc # "search") =>
                /\ reqs'[r].pc \in {"save", "generate"}
                /\ reqs'[r].searchFailed => reqs'[r].pc = "save"
           /\ (reqs[r].pc = "history" /\ reqs'[r].pc \notin {"history", "catch"}
                 /\ ~vectorStore) =>
                /\ reqs'[r].pc = "save"
                /\ reqs'[r].searches = 0
       ]_vars

\* C17, its case: the search of a request rejected, and the request ended
\* with the Information Not Available Turn in the ledger.
C17_Witness ==
  \E r \in 1..Len(reqs) :
    /\ Answered(r)
    /\ reqs[r].searchFailed
    /\ pinecone # {}
    /\ reqs[r].response.answer = InformationNotAvailable
    /\ \E i \in TurnsOf(r) : ~chats[i].success

\* The paths of the state machine of the claim.
HitPath == << "START", "CACHE_CHECK", "CACHE_HIT", "RESPOND" >>
UnavailablePath ==
  << "START", "CACHE_CHECK", "CACHE_MISS", "RETRIEVE", "SYNTH_UNAVAILABLE", "PERSIST", "RESPOND" >>
GeneratedPath ==
  << "START", "CACHE_CHECK", "CACHE_MISS", "RETRIEVE", "GENERATE", "CLASSIFY", "PERSIST",
     "RESPOND" >>

\* The path of a failed generation, which skips the classifier.
GenerationErrorPath ==
  << "START", "CACHE_CHECK", "CACHE_MISS", "RETRIEVE", "GENERATE", "GENERATION_ERROR",
     "PERSIST", "RESPOND" >>

\* The paths that leave through the catch-all: a ledger read or write failed
\* at the cache check, at the write of a cache hit, at the history read or at
\* the write of the Turn.
UpTo(path, step) ==
  SubSeq(path, 1, CHOOSE k \in 1..Len(path) : path[k] = step)
CatchAllPaths ==
  { path \o << "CATCH_ALL", "RESPOND" >> :
      path \in { UpTo(HitPath, "CACHE_CHECK"), UpTo(HitPath, "CACHE_HIT"),
                 UpTo(UnavailablePath, "CACHE_MISS"), UpTo(UnavailablePath, "PERSIST"),
                 UpTo(GeneratedPath, "PERSIST"), UpTo(GenerationErrorPath, "PERSIST") } }

IsPrefix(t, path) == Len(t) <= Len(path) /\ SubSeq(path, 1, Len(t)) = t

\* C18, as stated: the steps of every answered request are one of the three
\* paths of the state machine; a cache hit writes nothing to the ledger, and
\* on a miss the Turn is in the ledger when the response is returned.
C18_StepsFollowStateMachine ==
  \A r \in 1..Len(reqs) :
    Answered(r) =>
      /\ reqs[r].trace \in {HitPath, UnavailablePath, GeneratedPath}
      /\ reqs[r].trace = HitPath => TurnsOf(r) = {}
      /\ Went(r, "CACHE_MISS") => Cardinality(TurnsOf(r)) = 1

\* C18, amended: the steps of every request are a path of the state
\* machine extended with the failed generation (GENERATE, then the error
\* answer instead of CLASSIFY) and with the catch-all (entered when a ledger
\* read or write fails, followed directly by RESPOND); a cache hit writes
\* its own Turn before RESPOND; and a request that did not enter the
\* catch-all has its Turn in the ledger when the response is returned.
C18_StepsFollowExtendedStateMachine ==
  \A r \in 1..Len(reqs) :
    LET paths == {HitPath, UnavailablePath, GeneratedPath, GenerationErrorPath}
                   \cup CatchAllPaths
    IN /\ reqs[r].trace # <<>> => \E path \in paths : IsPrefix(reqs[r].trace, path)
       /\ Answered(r) =>
            /\ reqs[r].trace \in paths
            /\ ~Went(r, "CATCH_ALL") =>
                 /\ Cardinality(TurnsOf(r)) = 1
                 /\ \A i \in TurnsOf(r) :
                      /\ chats[i].answer = reqs[r].response.answer
                      /\ chats[i].pageNumbers = reqs[r].response.pageNumbers
            /\ Went(r, "CATCH_ALL") => Cardinality(TurnsOf(r)) <= 1

\* C18, its case: a cache hit that has written its Turn and responded.
C18_Witness ==
  \E r \in 1..Len(reqs) :
    /\ Answered(r)
    /\ reqs[r].trace = HitPath
    /\ Cardinality(TurnsOf(r)) = 1

\* The Turn the catch-all writes for request r.
IsErrorTurn(i, r) ==
  /\ chats[i].sessionId = reqs[r].sessionId
  /\ chats[i].messageId = reqs[r].messageId
  /\ chats[i].question = Asked(r)
  /\ chats[i].answer = SystemErrorAnswer
  /\ chats[i].pageNumbers = <<>>
  /\ ~chats[i].success

\* C19: the catch-all is entered only from a failed ledger read or write
\* (cache lookup, write of a cache hit, history read, write of the Turn); it
\* appends one Turn with success = false, the System Error answer and no
\* page numbers, or nothing when that write fails too, and in both cases
\* the request returns the System Error answer with pageNumbers = [].
C19_CatchAllPersistsAndResponds ==
  /\ [] (\A r \in 1..Len(reqs) :
           (Answered(r) /\ Went(r, "CATCH_ALL")) =>
             /\ reqs[r].response.success
             /\ reqs[r].response.messageId = reqs[r].messageId
             /\ reqs[r].response.answer = SystemErrorAnswer
             /\ reqs[r].response.pageNumbers = <<>>
             /\ Cardinality(TurnsOf(r)) = reqs[r].saves
             /\ reqs[r].saves <= 1
             /\ \A i \in TurnsOf(r) : IsErrorTurn(i, r))
  /\ [][ \A r \in 1..Len(reqs) :
           /\ (reqs'[r].pc = "catch" /\ reqs[r].pc # "catch") =>
                /\ reqs[r].pc \in {"cache", "saveHit", "history", "save"}
                /\ chats' = chats
           /\ (reqs[r].pc = "catch" /\ reqs'[r].pc # "catch") =>
                /\ reqs'[r].pc = "done"
                /\ \/ chats' = chats
                   \/ /\ Len(chats') = Len(chats) + 1
                      /\ SubSeq(chats', 1, Len(chats)) = chats
       ]_vars

\* C19, its case: the write of a generated answer with page numbers failed,
\* and the catch-all wrote the error Turn and answered without them.
C19_Witness ==
  \E r \in 1..Len(reqs) :
    /\ Answered(r)
    /\ Went(r, "CLASSIFY")
    /\ Went(r, "CATCH_ALL")
    /\ reqs[r].pageNumbers # <<>>
    /\ reqs[r].response.pageNumbers = <<>>
    /\ \E i \in TurnsOf(r) : IsErrorTurn(i, r)


\* No Turn is removed and no field of a Turn but its rating is changed.
TurnsKept ==
  /\ Len(chats') >= Len(chats)
  /\ \A i \in 1..Len(chats) : [chats'[i] EXCEPT !.rating = chats[i].rating] = chats[i]

\* C11, as stated: every request that getAnswer has answered has exactly one
\* Turn in the ledger, stored under the messageId of its response, and no
\* step removes a Turn.
C11_ExactlyOneTurnPerRequest ==
  /\ [] (\A r \in 1..Len(reqs) :
           Answered(r) =>
             /\ Cardinality(TurnsOf(r)) = 1
             /\ \A i \in TurnsOf(r) : chats[i].messageId = reqs[r].response.messageId)
  /\ [][TurnsKept]_vars

\* C11, amended: every request that getAnswer has answered has at most one
\* Turn in the ledger, stored under the messageId of its response, and
\* exactly one unless the request ended in the catch-all and the write of
\* the error Turn failed too; a request still in flight has none yet; and no
\* step removes a Turn or changes any of its fields but the rating.
C11_OneTurnUnlessWritesFail ==
  /\ [] (\A r \in 1..Len(reqs) :
           /\ Cardinality(TurnsOf(r)) = reqs[r].saves
           /\ reqs[r].saves <= 1
           /\ reqs[r].pc # "done" => reqs[r].saves = 0
           /\ Answered(r) =>
                /\ \A i \in TurnsOf(r) : chats[i].messageId = reqs[r].response.messageId
                /\ reqs[r].saves = 0 => Went(r, "CATCH_ALL"))
  /\ [][TurnsKept]_vars

\* C11, its case: the Turn of an answered request has been rated since and
\* is still in the ledger under the messageId of the response.
C11_Witness ==
  \E r \in 1..Len(reqs) :
    /\ Answered(r)
    /\ \E i \in TurnsOf(r) :
         /\ chats[i].messageId = reqs[r].response.messageId
         /\ chats[i].rating # NoRating

\* The ledger after the Turn stored under messageId has been given the rating.
Rated(ledger, messageId, rating) ==
  [i \in 1..Len(ledger) |->
     IF ledger[i].messageId = messageId
     THEN [ledger[i] EXCEPT !.rating = rating] ELSE ledger[i]]

\* C12, as stated: the update of a feedback call with a messageId and a
\* rating sets the rating of the Turn stored under that messageId, leaves
\* every other field and Turn as it was (the whole ledger when there is no
\* such Turn), and the call answers with success.
C12_FeedbackSetsRatingOnly ==
  [][ \A f \in 1..Len(feedbacks) :
        (feedbacks[f].pc = "update" /\ feedbacks'[f].pc = "done") =>
          /\ chats' = Rated(chats, feedbacks[f].messageId, feedbacks[f].rating)
          /\ feedbacks'[f].response = [status |-> StatusOk, success |-> TRUE]
    ]_vars

\* C12, amended: the same unless the update of the ledger fails, in which
\* case the ledger is left unchanged and the call answers 500; a call whose
\* messageId or rating is missing (absent, empty or 0) is answered 400 and
\* never reaches the ledger.
C12_FeedbackSetsRatingUnlessUpdateFails ==
  [][ /\ \A f \in 1..Len(feedbacks) :
           (feedbacks[f].pc = "update" /\ feedbacks'[f].pc = "done") =>
             \/ /\ chats' = Rated(chats, feedbacks[f].messageId, feedbacks[f].rating)
                /\ feedbacks'[f].response = [status |-> StatusOk, success |-> TRUE]
             \/ /\ chats' = chats
                /\ feedbacks'[f].response = [status |-> StatusServerError, success |-> FALSE]
      /\ Len(feedbacks') > Len(feedbacks) =>
           LET call == feedbacks'[Len(feedbacks')] IN
           /\ chats' = chats
           /\ IF call.messageId = 0 \/ call.rating = 0
              THEN /\ call.pc = "done"
                   /\ call.response = [status |-> StatusBadRequest, success |-> FALSE]
              ELSE call.pc = "update"
    ]_vars

\* C12, its case: a Turn was rated by one call and rated again with another
\* value by a second one, while the other Turns of the ledger kept no rating.
C12_Witness ==
  /\ Len(feedbacks) = 2
  /\ Len(chats) >= 2
  /\ feedbacks[1].pc = "done" /\ feedbacks[1].response.success
  /\ feedbacks[2].pc = "done" /\ feedbacks[2].response.success
  /\ feedbacks[1].messageId = feedbacks[2].messageId
  /\ feedbacks[1].rating # feedbacks[2].rating
  /\ \E i \in 1..Len(chats) :
       /\ chats[i].messageId = feedbacks[1].messageId
       /\ chats[i].rating \in {feedbacks[1].rating, feedbacks[2].rating}
       /\ \A j \in 1..Len(chats) : j # i => chats[j].rating = NoRating

\* C16, as stated: the successful Turns storing a question never become
\* fewer, and a cache lookup made when one exists is a cache hit.
C16_CacheEntryPermanent ==
  [][ \A r \in 1..Len(reqs) :
        /\ \A i \in Cached(r) :
             i <= Len(chats') /\ chats'[i].success /\ chats'[i].question = Asked(r)
        /\ (reqs[r].pc = "cache" /\ reqs'[r].pc # "cache" /\ Cached(r) # {}) =>
             /\ reqs'[r].pc = "saveHit"
             /\ reqs'[r].exactMatch \in { chats[i] : i \in Cached(r) }
    ]_vars

\* C16, amended: the successful Turns storing a question never become
\* fewer, whatever is ingested, rated or asked, and a cache lookup made when
\* one exists is a cache hit unless the lookup itself fails, which ends the
\* request in the catch-all; it is never a cache miss.
C16_CacheEntryPermanentUnlessLookupFails ==
  [][ \A r \in 1..Len(reqs) :
        /\ \A i \in Cached(r) :
             i <= Len(chats') /\ chats'[i].success /\ chats'[i].question = Asked(r)
        /\ (reqs[r].pc = "cache" /\ reqs'[r].pc # "cache" /\ Cached(r) # {}) =>
             \/ /\ reqs'[r].pc = "saveHit"
                /\ reqs'[r].exactMatch \in { chats[i] : i \in Cached(r) }
             \/ /\ reqs'[r].pc = "catch"
                /\ reqs'[r].trace = << "START", "CACHE_CHECK", "CATCH_ALL" >>
    ]_vars

\* C16, its case: the cached Turn was rated, a failed Turn for the same
\* question was stored after it and a new version of the document was
\* ingested, and the request was still a cache hit.
C16_Witness ==
  \E r \in 1..Len(reqs) :
    /\ Answered(r)
    /\ Went(r, "CACHE_HIT")
    /\ indexerCalls[<<"a.pdf", 20>>] = 1
    /\ \E i \in Cached(r) :
         /\ i < reqs[r].startedAt
         /\ chats[i].rating # NoRating
         /\ ~chats[reqs[r].startedAt].success
         /\ chats[reqs[r].startedAt].question = Asked(r)

\* The (filename, fileSize) pairs whose record save was rejected in a lifetime.
SaveRejectedIn(l) ==
  { <<l[k].filename, l[k].fileSize>> : k \in { j \in 1..Len(l) : l[j].saveRejected } }

\* C21: a document whose record save was rejected after a completed upsert
\* is not processed again in the same process lifetime and has no record in
\* the ProcessedPDF collection; in the next lifetime its processIfNew call
\* does not skip it, and indexes it again when nothing throws.
C21_RecordFailureReattempted ==
  /\ \A k \in 1..Len(log) :
       log[k].saveRejected =>
         /\ log[k].indexed
         /\ \A j \in 1..Len(log) : j # k => log[j].filename # log[k].filename
         /\ RecordsFor(<<log[k].filename, log[k].fileSize>>) = {}
  /\ \A k \in 1..Len(log) :
       <<log[k].filename, log[k].fileSize>> \in SaveRejectedIn(prevLog) =>
         /\ log[k].outcome # "skipped"
         /\ log[k].outcome = "processed" => log[k].indexed

\* C22: the decision of processIfNew on the file in hand depends only on
\* its (filename, fileSize) pair: the file is skipped, with no upsert and no
\* new record, exactly when the ProcessedPDF collection holds a record with
\* that name and that size, and it goes on to be parsed and indexed
\* otherwise (a record of the same name with another size does not count).
C22_SkipDecidedByNameAndSize ==
  [][ (initPc = "lookup" /\ examined' # examined) =>
        LET p == <<Head(files), pdfDir[Head(files)]>> IN
        IF RecordsFor(p) # {}
        THEN /\ initPc' # "index"
             /\ Len(log') = Len(log) + 1
             /\ log'[Len(log')].outcome = "skipped"
             /\ indexerCalls' = indexerCalls
             /\ processed' = processed
        ELSE /\ initPc' = "index"
             /\ log' = log
    ]_vars

\* C23: initializeRAG has come to its end before any request runs its
\* retrieval step: the step that reads the vectorStore global after the
\* history read, and the step in which similaritySearch settles, are taken
\* only when the ingestion and the connection of the vector store are over.
C23_InitBeforeFirstQuestion ==
  [][ \A r \in 1..Len(reqs) :
        (reqs[r].pc \in {"history", "search"} /\ reqs'[r].pc \notin {reqs[r].pc, "catch"})
          => initPc = "done"
    ]_vars

\* A run of three or more consecutive newlines.
HasNewlineRun(s) ==
  \E i \in 1..(Len(s) - 2) : s[i] = NL /\ s[i + 1] = NL /\ s[i + 2] = NL

\* No token of ws at either end.
NoneAtEnds(s, ws) == s # <<>> => (s[1] \notin ws /\ s[Len(s)] \notin ws)

HasPageReference(s) ==
  \E i \in 1..Len(s) : IsPageRef(s[i]) \/ s[i] = ParenPageRef

C25_SameQuestionSameAnswer ==
  \A i, j \in 1..Len(chats) :
    ( /\ chats[i].success
      /\ chats[j].success
      /\ NormalizedQuestion(chats[i].question) = NormalizedQuestion(chats[j].question) )
      => /\ chats[i].answer = chats[j].answer
         /\ chats[i].pageNumbers = chats[j].pageNumbers

\* C26: every Turn in the ledger stores the question of its request trimmed
\* and lowercased, whether it was written on a cache hit, after a
\* generation, for an empty context or by the catch-all.
C26_QuestionStoredNormalized ==
  /\ \A i \in 1..Len(chats) : chats[i].question = NormalizedQuestion(chats[i].question)
  /\ \A r \in 1..Len(reqs) : \A i \in TurnsOf(r) : chats[i].question = Asked(r)

\* C27: for every answered request that persisted a Turn, the answer and
\* the page numbers of the response are those of the Turn stored under the
\* messageId of the response, on the cache-hit, generated, empty-context and
\* catch-all paths alike.
C27_ResponseEqualsPersistedTurn ==
  \A r \in 1..Len(reqs) :
    Answered(r) =>
      \A i \in 1..Len(chats) :
        chats[i].messageId = reqs[r].response.messageId =>
          /\ i \in TurnsOf(r)
          /\ chats[i].answer = reqs[r].response.answer
          /\ chats[i].pageNumbers = reqs[r].response.pageNumbers

\* C27, its case: one request was answered by the model with page numbers
\* and the next one from the cache, and each response equals its own Turn.
C27_Witness ==
  \E r, h \in 1..Len(reqs) :
    /\ Answered(r) /\ Went(r, "CLASSIFY") /\ ~Went(r, "CATCH_ALL")
    /\ Answered(h) /\ Went(h, "CACHE_HIT") /\ ~Went(h, "CATCH_ALL")
    /\ reqs[h].response.pageNumbers # <<>>
    /\ \E i \in TurnsOf(r) : chats[i].answer = reqs[r].response.answer
    /\ \E i \in TurnsOf(h) :
         /\ chats[i].answer = reqs[h].response.answer
         /\ chats[i].pageNumbers = reqs[h].response.pageNumbers

\* Turn j was written for an answer the model generated from a non-empty
\* retrieved context: the post-processed text of one llm.invoke call.
Grounded(j) ==
  /\ chats[j].success
  /\ \E r \in 1..Len(reqs) :
       /\ chats[j].messageId = reqs[r].messageId
       /\ Went(r, "RETRIEVE") /\ Went(r, "GENERATE") /\ Went(r, "CLASSIFY")
       /\ reqs[r].searches = 1
       /\ reqs[r].context # <<>>
       /\ reqs[r].llmCalls = 1
       /\ chats[j].answer = reqs[r].answer
  /\ \E raw \in RawOutputs : chats[j].answer = CleanPageReferences(formatResponse(raw))

\* Turn i was written on a cache hit.
WrittenOnHit(i) ==
  \E r \in 1..Len(reqs) :
    /\ chats[i].messageId = reqs[r].messageId
    /\ Went(r, "CACHE_HIT")
    /\ reqs[r].searches = 0
    /\ reqs[r].llmCalls = 0

\* C28: every Turn with success = true is grounded: its answer is the
\* post-processed output of a model call made with a non-empty retrieved
\* context, or the copy a cache hit made of the answer of such a Turn
\* written before it.
C28_SuccessfulTurnsGrounded ==
  \A i \in 1..Len(chats) :
    chats[i].success =>
      \/ Grounded(i)
      \/ /\ WrittenOnHit(i)
         /\ \E j \in 1..(i - 1) :
              /\ Grounded(j)
              /\ chats[j].answer = chats[i].answer
              /\ chats[j].pageNumbers = chats[i].pageNumbers

\* C28, its case: the ledger holds a generated Turn and, after it, the copy
\* a cache hit made of it without a search or a model call of its own.
C28_Witness ==
  \E i, j \in 1..Len(chats) :
    /\ j < i
    /\ Grounded(j)
    /\ chats[i].success /\ WrittenOnHit(i) /\ ~Grounded(i)
    /\ chats[i].answer = chats[j].answer

\* The structured out-of-scope answer of the prompt: its first heading.
IsOutOfScope(answer) ==
  Len(answer) >= 3 /\ SubSeq(answer, 1, 3) = << HD, SP, "Outside My Expertise" >>

\* The successful Turns that store the question of request r with an
\* out-of-scope answer.
CachedOutOfScope(r) == { i \in Cached(r) : IsOutOfScope(chats[i].answer) }

\* C29, as stated: a generated out-of-scope answer holds no failure
\* signature and is persisted with success = true, and from then on every
\* lookup of the same normalized question is a cache hit that returns it.
C29_OutOfScopeAnswerCached ==
  /\ [] (\A r \in 1..Len(reqs) :
           (Answered(r) /\ Went(r, "CLASSIFY") /\ IsOutOfScope(reqs[r].answer)) =>
             /\ ~HasFailureSignature(reqs[r].answer)
             /\ \E i \in TurnsOf(r) :
                  chats[i].success /\ chats[i].answer = reqs[r].answer)
  /\ [][ \A r \in 1..Len(reqs) :
           (reqs[r].pc = "cache" /\ reqs'[r].pc # "cache" /\ CachedOutOfScope(r) # {}) =>
             /\ reqs'[r].pc = "saveHit"
             /\ IsOutOfScope(reqs'[r].exactMatch.answer)
       ]_vars

\* C29, amended: a generated out-of-scope answer holds no failure signature
\* and goes to the ledger with success = true, where it is persisted unless
\* the write fails and the catch-all answers instead; from then on a lookup
\* of the same normalized question is a cache hit on a successful Turn of
\* that question (the out-of-scope one when no other successful Turn stores
\* the question) unless the lookup itself fails and ends in the catch-all,
\* and it is never a miss; and a history read of the Turn's session returns
\* the Turn while it is among the three newest successful Turns.
C29_OutOfScopeAnswerCachedUnlessLedgerFails ==
  /\ [] (\A r \in 1..Len(reqs) :
           (Went(r, "CLASSIFY") /\ IsOutOfScope(reqs[r].answer)) =>
             /\ ~HasFailureSignature(reqs[r].answer)
             /\ reqs[r].isSuccess
             /\ (Answered(r) /\ ~Went(r, "CATCH_ALL")) =>
                  \E i \in TurnsOf(r) :
                    chats[i].success /\ chats[i].answer = reqs[r].answer
             /\ (Answered(r) /\ Went(r, "CATCH_ALL")) =>
                  \A i \in TurnsOf(r) : ~chats[i].success)
  /\ [][ \A r \in 1..Len(reqs) :
           /\ (reqs[r].pc = "cache" /\ reqs'[r].pc # "cache" /\ CachedOutOfScope(r) # {}) =>
                \/ /\ reqs'[r].pc = "saveHit"
                   /\ reqs'[r].exactMatch \in { chats[i] : i \in Cached(r) }
                   /\ Cached(r) = CachedOutOfScope(r) =>
                        IsOutOfScope(reqs'[r].exactMatch.answer)
                \/ reqs'[r].pc = "catch"
           /\ (reqs[r].pc = "history" /\ reqs'[r].pc \notin {"history", "catch"}) =>
                \A i \in Eligible(reqs[r].sessionId) :
                  ( /\ IsOutOfScope(chats[i].answer)
                    /\ Cardinality({ j \in Eligible(reqs[r].sessionId) : j > i }) < HistoryLimit )
                    => \E k \in 1..Len(reqs'[r].recentChats) :
                         reqs'[r].recentChats[k] = chats[i]
       ]_vars

\* C29, its case: the model answered a question with the out-of-scope text,
\* the Turn was stored with success = true, and the same question asked
\* again was answered with that text from the cache.
C29_Witness ==
  \E r, h \in 1..Len(reqs) :
    /\ Answered(r) /\ Went(r, "CLASSIFY") /\ IsOutOfScope(reqs[r].answer)
    /\ \E i \in TurnsOf(r) : chats[i].success
    /\ Answered(h) /\ Went(h, "CACHE_HIT")
    /\ Asked(h) = Asked(r)
    /\ reqs[h].response.consistent
    /\ reqs[h].response.answer = reqs[r].answer

=============================================================================
